---- MODULE Spec2Model ----
(***************************************************************************)
(* A model of the command-line flag library cosiner/flag: the registration *)
(* of flags and flag sets, the scanner that splits an argument list into   *)
(* per-command token streams, the resolver that binds the tokens to the    *)
(* flags' value pointers, and Reset.                                       *)
(*                                                                         *)
(* Text is modelled as a sequence of one-character strings, so that the    *)
(* splitting at '=', ',' and '-' is computed and not assumed.              *)
(***************************************************************************)
EXTENDS Integers, Sequences, FiniteSets, TLC

\* ------------------------------------------------------------------------
\* Bounds of the model
\* ------------------------------------------------------------------------

\* longest argument list (without the program name) handed to Parse
MaxArgs == 3

\* most registrations performed on one model in the registration specification
MaxRegs == 3

\* ------------------------------------------------------------------------
\* Text helpers (Go's strings package, on sequences of characters)
\* ------------------------------------------------------------------------

Range(s) == {s[i] : i \in DOMAIN s}

\* s[from..] in Go's slice notation (0-based from), as a sequence
Drop(s, n) == SubSeq(s, n + 1, Len(s))

Take(s, n) == SubSeq(s, 1, n)

HasPrefix(s, p) == Len(s) >= Len(p) /\ Take(s, Len(p)) = p

\* strings.IndexByte / strings.Index: the 1-based position of the first
\* occurrence of sep in s, 0 when there is none
Index(s, sep) ==
    LET hits == {i \in 1..(Len(s) - Len(sep) + 1) : SubSeq(s, i, i + Len(sep) - 1) = sep}
    IN  IF hits = {} THEN 0 ELSE CHOOSE i \in hits : \A j \in hits : i <= j

RECURSIVE Split(_, _)
\* strings.Split(s, sep) for a non-empty sep: never drops empty sections
Split(s, sep) ==
    LET i == Index(s, sep)
    IN  IF i = 0 THEN <<s>>
        ELSE <<Take(s, i - 1)>> \o Split(Drop(s, i - 1 + Len(sep)), sep)

RECURSIVE TrimLeft(_)
TrimLeft(s) == IF s # <<>> /\ Head(s) = " " THEN TrimLeft(Tail(s)) ELSE s

RECURSIVE TrimRight(_)
TrimRight(s) ==
    IF s # <<>> /\ s[Len(s)] = " " THEN TrimRight(Take(s, Len(s) - 1)) ELSE s

\* strings.TrimSpace
TrimSpace(s) == TrimRight(TrimLeft(s))

splitAndTrimSpace(s, sep) ==
    LET secs == Split(s, sep)
    IN  [i \in DOMAIN secs |-> TrimSpace(secs[i])]

\* strings.ToLower on the letters the model uses
LowerChar(c) ==
    CASE c = "T" -> "t" [] c = "R" -> "r" [] c = "U" -> "u" [] c = "E" -> "e"
      [] c = "F" -> "f" [] c = "A" -> "a" [] c = "L" -> "l" [] c = "S" -> "s"
      [] c = "Y" -> "y" [] c = "N" -> "n" [] c = "O" -> "o"
      [] OTHER -> c

ToLower(s) == [i \in DOMAIN s |-> LowerChar(s[i])]

\* ------------------------------------------------------------------------
\* Values and value pointers
\* ------------------------------------------------------------------------

\* an optional value: Go's nil interface, or a value
Nil == [has |-> FALSE, v |-> <<>>]

Some(x) == [has |-> TRUE, v |-> x]

\* The value pointers (fields of the user's structures) the model binds,
\* with the Go type each points to.  "" is the nil pointer.
PtrType ==
    [ GZ |-> "bool", Create |-> "bool", File |-> "string", Include |-> "[]string",
      Level |-> "uint8", Args |-> "[]string",
      BuildEnable |-> "bool", Output |-> "string", Race |-> "bool",
      Packages |-> "[]string", Pkg |-> "string",
      CleanEnable |-> "bool", Cache |-> "bool",
      ModEnable |-> "bool", Tidy |-> "bool", ShowHelp |-> "bool", Verbose |-> "int",
      Force |-> "bool", Source |-> "string", Destination |-> "string", Rest |-> "[]string",
      MvEnable |-> "bool", Interactive |-> "bool", Target |-> "string", More |-> "[]string",
      LnEnable |-> "bool", Symbolic |-> "bool", Link |-> "string",
      Num |-> "uint8", Lvls |-> "[]uint8", Mode |-> "string", Kind |-> "string",
      SubEnable |-> "bool", Flips |-> "[]bool" ]

Ptrs == DOMAIN PtrType

\* a mistaken isBoolPtr: only the pointer to a slice of booleans is matched
isBoolPtrSliceOnly(ptr) == PtrType[ptr] = "[]bool"

isBoolPtr(ptr) == PtrType[ptr] \in {"bool", "[]bool"}

isSlicePtr(ptr) == PtrType[ptr] \in {"[]string", "[]uint8", "[]bool"}

\* sliceElemKind of the pointed-to value
sliceElemKind(ptr) ==
    CASE PtrType[ptr] \in {"bool", "[]bool"} -> "bool"
      [] PtrType[ptr] \in {"string", "[]string"} -> "string"
      [] PtrType[ptr] = "int" -> "int"
      [] OTHER -> "uint8"

isKindNumber(k) == k \in {"uint8", "int", "float64"}

\* the zero value of the pointed-to type
ZeroOf(ptr) ==
    CASE PtrType[ptr] = "bool" -> FALSE
      [] PtrType[ptr] \in {"uint8", "int"} -> 0
      [] OTHER -> <<>>

ZeroMem == [p \in Ptrs |-> ZeroOf(p)]

convertBool(val) ==
    LET l == ToLower(val)
    IN  IF l \in {<<"t","r","u","e">>, <<"t">>, <<"y","e","s">>, <<"y">>, <<"1">>}
          THEN [err |-> "NoError", val |-> <<"t","r","u","e">>]
        ELSE IF l \in {<<"f","a","l","s","e">>, <<"f">>, <<"n","o">>, <<"n">>, <<"0">>}
          THEN [err |-> "NoError", val |-> <<"f","a","l","s","e">>]
        ELSE [err |-> "IllegalBool", val |-> <<>>]

\* strconv.ParseBool: accepts 1, t, T, TRUE, true, True, 0, f, F, FALSE, false, False
ParseBool(val) ==
    IF val \in {<<"1">>, <<"t">>, <<"T">>, <<"T","R","U","E">>, <<"t","r","u","e">>,
                <<"T","r","u","e">>}
      THEN [err |-> "NoError", b |-> TRUE]
    ELSE IF val \in {<<"0">>, <<"f">>, <<"F">>, <<"F","A","L","S","E">>,
                     <<"f","a","l","s","e">>, <<"F","a","l","s","e">>}
      THEN [err |-> "NoError", b |-> FALSE]
    ELSE [err |-> "IllegalBool", b |-> FALSE]

DigitVal(c) ==
    CASE c = "0" -> 0 [] c = "1" -> 1 [] c = "2" -> 2 [] c = "3" -> 3 [] c = "4" -> 4
      [] c = "5" -> 5 [] c = "6" -> 6 [] c = "7" -> 7 [] c = "8" -> 8 [] c = "9" -> 9
      [] OTHER -> -1

RECURSIVE DigitsVal(_, _)
DigitsVal(s, acc) ==
    IF s = <<>> THEN acc ELSE DigitsVal(Tail(s), acc * 10 + DigitVal(Head(s)))

IsDigits(s) == s # <<>> /\ \A i \in DOMAIN s : DigitVal(s[i]) >= 0

\* strconv.ParseFloat(val, 64) on the literals of the model: an optionally
\* signed run of decimal digits; any other text is a syntax error, with 0
ParseFloat(val) ==
    IF IsDigits(val) THEN [err |-> "NoError", flt |-> DigitsVal(val, 0)]
    ELSE IF val # <<>> /\ Head(val) \in {"-", "+"} /\ IsDigits(Tail(val))
      THEN [err |-> "NoError",
            flt |-> IF Head(val) = "-" THEN 0 - DigitsVal(Tail(val), 0)
                    ELSE DigitsVal(Tail(val), 0)]
    ELSE [err |-> "IllegalNumber", flt |-> 0]

\* What the build makes of the conversion of a float64 to an integer type
\* that cannot represent it: the conversion succeeds and its result depends
\* on the implementation.  "wrap": the low bits of the 64-bit integer;
\* "saturate": the nearest value of the type.
VARIABLE arch

Archs == {"wrap", "saturate"}

\* the conversion uint8(flt) of a float64 holding an integer: exact in range
toUint8(flt) ==
    IF flt \in 0..255 THEN flt
    ELSE IF arch = "wrap" THEN flt % 256
    ELSE IF flt < 0 THEN 0 ELSE 255

DigitChar(d) ==
    CASE d = 0 -> "0" [] d = 1 -> "1" [] d = 2 -> "2" [] d = 3 -> "3" [] d = 4 -> "4"
      [] d = 5 -> "5" [] d = 6 -> "6" [] d = 7 -> "7" [] d = 8 -> "8" [] OTHER -> "9"

RECURSIVE NatText(_)
NatText(n) == IF n < 10 THEN <<DigitChar(n)>> ELSE NatText(n \div 10) \o <<DigitChar(n % 10)>>

\* fmt.Sprint of a default value: a bool, a string, or a float64 holding an integer
Sprint(kind, v) ==
    CASE kind = "bool" -> IF v THEN <<"t","r","u","e">> ELSE <<"f","a","l","s","e">>
      [] kind = "string" -> v
      [] OTHER -> IF v < 0 THEN <<"-">> \o NatText(0 - v) ELSE NatText(v)

\* a mistaken checkSelects: every value is taken for a selectable one
checkSelectsAny(k, selects, val, flt) == TRUE

checkSelects(k, selects, val, flt) ==
    CASE isKindNumber(k) -> \E i \in DOMAIN selects : flt = selects[i]
      [] k = "string" -> \E i \in DOMAIN selects : selects[i] = val
      [] OTHER -> FALSE

\* a mistaken store: a value that is refused is not stored
storeValChecked(ptr, cur, v, pf, pb, selects) ==
    LET t    == PtrType[ptr]
        new  == CASE t = "uint8" -> toUint8(pf.flt)
                  [] t = "int" -> pf.flt
                  [] t = "[]uint8" -> Append(cur, toUint8(pf.flt))
                  [] t = "string" -> v
                  [] t = "[]string" -> Append(cur, v)
                  [] t = "bool" -> pb.b
                  [] OTHER -> Append(cur, pb.b)
        err  == CASE t \in {"uint8", "[]uint8", "int"} -> pf.err
                  [] t \in {"bool", "[]bool"} -> pb.err
                  [] OTHER -> "NoError"
    IN  IF err # "NoError" THEN [err |-> err, v |-> cur]
        ELSE IF selects.has /\ ~checkSelects(sliceElemKind(ptr), selects.v, v, pf.flt)
          THEN [err |-> "InvalidSelect", v |-> cur]
        ELSE [err |-> "NoError", v |-> new]

\* the part of applyValToPtr after the conversion of a boolean text: v is
\* the text, pf and pb what ParseFloat and ParseBool make of it; the switch
\* on the type of ptr stores the value, then the selects are checked
storeVal(ptr, cur, v, pf, pb, selects) ==
    LET t    == PtrType[ptr]
        new  == CASE t = "uint8" -> toUint8(pf.flt)
                  [] t = "int" -> pf.flt
                  [] t = "[]uint8" -> Append(cur, toUint8(pf.flt))
                  [] t = "string" -> v
                  [] t = "[]string" -> Append(cur, v)
                  [] t = "bool" -> pb.b
                  [] OTHER -> Append(cur, pb.b)
        err  == CASE t \in {"uint8", "[]uint8", "int"} -> pf.err
                  [] t \in {"bool", "[]bool"} -> pb.err
                  [] OTHER -> "NoError"
    IN  IF err # "NoError" THEN [err |-> err, v |-> new]
        ELSE IF selects.has /\ ~checkSelects(sliceElemKind(ptr), selects.v, v, pf.flt)
          THEN [err |-> "InvalidSelect", v |-> new]
        ELSE [err |-> "NoError", v |-> new]

\* the text applyValToPtr goes on with: that of convertBool for a boolean
convertVal(ptr, val) ==
    IF isBoolPtr(ptr) THEN convertBool(val) ELSE [err |-> "NoError", val |-> val]

\* the result of applyValToPtr for the converted text cb
applyConverted(ptr, cur, cb, selects) ==
    IF cb.err # "NoError" THEN [err |-> cb.err, v |-> cur]
    ELSE storeVal(ptr, cur, cb.val, ParseFloat(cb.val), ParseBool(cb.val), selects)

\* applyValToPtr(names, ptr, val, selects) on the current value cur of *ptr:
\* the error and the value *ptr holds when it returns
applyValToPtr(ptr, cur, val, selects) ==
    applyConverted(ptr, cur, convertVal(ptr, val), selects)

\* ------------------------------------------------------------------------
\* The command model: Flag, FlagSet and the register
\* ------------------------------------------------------------------------

\* A flag set is addressed by its index in the sequence of all flag sets of
\* the tree (the model's form of a *FlagSet); the root is 1 and 0 is nil.
Root == 1

\* a default value as Go holds it: its kind, whether it is a slice, the value
NoDefault == [has |-> FALSE, kind |-> "", slice |-> FALSE, v |-> <<>>]

\* the name of a positional flag
flagNamePositional == <<"@">>

flagNameSeparatorForSplit == <<",">>

flagNameSeparatorForJoin == <<",", " ">>

\* the Flag structure with every field at its zero value
Flag0 ==
    [ Names |-> <<>>, Arglist |-> <<>>, Usage |-> <<>>, Desc |-> <<>>, Ptr |-> "",
      Default |-> NoDefault, Selects |-> Nil, Env |-> <<>>, ValSep |-> <<>>,
      Version |-> <<>>, ArgsPtr |-> "", ArgsAnywhere |-> FALSE ]

EmptyMap == [k \in {} |-> 0]

RECURSIVE Join(_, _)
\* strings.Join
Join(ss, sep) ==
    IF ss = <<>> THEN <<>>
    ELSE IF Len(ss) = 1 THEN ss[1]
    ELSE ss[1] \o sep \o Join(Tail(ss), sep)

joinFlagNames(names) == Join(names, flagNameSeparatorForJoin)

\* the cleaned list of names and the joined names
cleanFlagNames(names) ==
    LET ns == splitAndTrimSpace(names, flagNameSeparatorForSplit)
    IN  [ns |-> ns, names |-> joinFlagNames(ns)]

cleanFlag(flag) == IF flag.ValSep = <<>> THEN [flag EXCEPT !.ValSep = <<",">>] ELSE flag

newFlagSet(flag) ==
    [ self |-> cleanFlag(flag), flags |-> <<>>, flagIndexes |-> EmptyMap,
      subsets |-> <<>>, subsetIndexes |-> EmptyMap,
      noHelpFlag |-> FALSE, helpFlagDefined |-> FALSE ]

\* indexes[key] = index for every key
\* a mistaken addIndexes: only the first of the names is indexed
addIndexesFirst(indexes, keys, index) ==
    [k \in (DOMAIN indexes) \cup {keys[1]} |-> IF k = keys[1] THEN index ELSE indexes[k]]

addIndexes(indexes, keys, index) ==
    [k \in (DOMAIN indexes) \cup Range(keys) |->
        IF k \in Range(keys) THEN index ELSE indexes[k]]

\* a mistaken isFlag: it looks the name up among the subsets
isFlagInSubsets(set, name) == name \in DOMAIN set.subsetIndexes

isFlag(set, name) == name \in DOMAIN set.flagIndexes

isSubset(set, name) == name \in DOMAIN set.subsetIndexes

isFlagOrSubset(set, name) == isFlag(set, name) \/ isSubset(set, name)

\* &f.flags[index], as the index; 0 when the name is not registered
searchFlag(set, name) ==
    IF name \in DOMAIN set.flagIndexes THEN set.flagIndexes[name] ELSE 0

\* the names among `names` that the set, the parent (0: nil) or one of the
\* set's direct subsets already uses
findDuplicates(sets, parent, set, names) ==
    LET dup(name) ==
            \/ isFlagOrSubset(sets[set], name)
            \/ (parent # 0 /\ isFlagOrSubset(sets[parent], name))
            \/ \E i \in DOMAIN sets[set].subsets :
                   isFlagOrSubset(sets[sets[set].subsets[i]], name)
    IN  SelectSeq(names, dup)

isKindCompatible(k1, k2) ==
    IF k1 \in {"bool", "string"} THEN k2 = k1 ELSE isKindNumber(k1) /\ isKindNumber(k2)

\* whether def may be the default of the flag (the error of updateFlagDefault)
updateFlagDefault(flag, def) ==
    IF (IF isSlicePtr(flag.Ptr) THEN def.slice ELSE ~def.slice)
       /\ isKindCompatible(sliceElemKind(flag.Ptr), def.kind)
      THEN "NoError" ELSE "InvalidType"

\* the error of updateFlagSelects: numbers for a number flag, a non-empty
\* list of strings for a string flag
updateFlagSelects(flag, val) ==
    LET k == sliceElemKind(flag.Ptr)
    IN  IF isKindNumber(k) THEN "NoError"
        ELSE IF k = "string" /\ val.v # <<>> THEN "NoError"
        ELSE "InvalidSelects"

\* register.registerFlag(parent, set, flag): the error and the tree afterwards
registerFlag(sets, parent, set, flag) ==
    LET cn   == cleanFlagNames(flag.Names)
        dups == findDuplicates(sets, parent, set, cn.ns)
        f    == cleanFlag([flag EXCEPT !.Names = cn.names])
        s    == sets[set]
        idx  == Len(s.flags) + 1
    IN  IF flag.Ptr = "" THEN [err |-> "NonPointer", sets |-> sets]
        ELSE IF flag.Default.has /\ updateFlagDefault(flag, flag.Default) # "NoError"
          THEN [err |-> "InvalidType", sets |-> sets]
        ELSE IF flag.Selects.has /\ updateFlagSelects(flag, flag.Selects) # "NoError"
          THEN [err |-> "InvalidSelects", sets |-> sets]
        ELSE IF dups # <<>> THEN [err |-> "DuplicateFlagRegister", sets |-> sets]
        ELSE [err |-> "NoError",
              sets |-> [sets EXCEPT ![set] =
                          [s EXCEPT !.flags = Append(s.flags, f),
                                    !.flagIndexes = addIndexes(s.flagIndexes, cn.ns, idx)]]]

checkSubsetValid(flag) == IF flag.Names = <<>> THEN "InvalidNames" ELSE "NoError"

\* register.registerSet(parent, set, flag): the error, the tree afterwards
\* and the new child (0 on error)
registerSet(sets, parent, set, flag) ==
    LET cn    == cleanFlagNames(flag.Names)
        f     == [flag EXCEPT !.Names = cn.names]
        dups  == findDuplicates(sets, parent, set, cn.ns)
        s     == sets[set]
        child == [newFlagSet(f) EXCEPT
                    !.self.Default = [has |-> TRUE, kind |-> "bool", slice |-> FALSE, v |-> FALSE],
                    !.noHelpFlag = FALSE]
        id    == Len(sets) + 1
        idx   == Len(s.subsets) + 1
    IN  IF checkSubsetValid(f) # "NoError" THEN [err |-> "InvalidNames", sets |-> sets, child |-> 0]
        ELSE IF dups # <<>> THEN [err |-> "DuplicateFlagRegister", sets |-> sets, child |-> 0]
        ELSE [err |-> "NoError",
              sets |-> Append([sets EXCEPT ![set] =
                          [s EXCEPT !.subsets = Append(s.subsets, id),
                                    !.subsetIndexes = addIndexes(s.subsetIndexes, cn.ns, idx)]],
                        child),
              child |-> id]

\* A structure handed to StructFlags, as the sequence of its exported
\* fields: the bool field Enable, a field that is a flag (with its names tag
\* and the pointer to the field), a field that is a named structure, a
\* child command.
EnableField(ptr) == [kind |-> "enable", names |-> <<>>, ptr |-> ptr, fields |-> <<>>]

FlagField(names, ptr) == [kind |-> "flag", names |-> names, ptr |-> ptr, fields |-> <<>>]

StructField(names, fields) == [kind |-> "struct", names |-> names, ptr |-> "", fields |-> fields]

RECURSIVE registerStructure(_, _, _, _)
RECURSIVE registerFields(_, _, _, _, _)
\* the loop of registerStructure over the fields from the i-th on, and the
\* check that follows it: the error and the tree afterwards; what was
\* registered before an error stays registered
registerFields(sets, parent, set, fields, i) ==
    IF i > Len(fields)
      THEN [err |-> IF parent # 0 /\ sets[set].self.Ptr = "" THEN "InvalidStructure" ELSE "NoError",
            sets |-> sets]
    ELSE
      LET fld == fields[i]
      IN  IF fld.kind = "enable"
            THEN registerFields(
                    IF sets[set].self.Ptr = "" THEN [sets EXCEPT ![set].self.Ptr = fld.ptr] ELSE sets,
                    parent, set, fields, i + 1)
          ELSE IF fld.kind = "flag"
            THEN LET r == registerFlag(sets, parent, set,
                             [Flag0 EXCEPT !.Names = fld.names, !.Ptr = fld.ptr, !.ValSep = <<",">>])
                 IN  IF r.err # "NoError" THEN r
                     ELSE registerFields(r.sets, parent, set, fields, i + 1)
          ELSE LET c == registerSet(sets, parent, set, [Flag0 EXCEPT !.Names = fld.names])
                   r == registerStructure(c.sets, set, c.child, fld.fields)
               IN  IF c.err # "NoError" THEN [err |-> c.err, sets |-> c.sets]
                   ELSE IF r.err # "NoError" THEN r
                   ELSE registerFields(r.sets, parent, set, fields, i + 1)

\* register.registerStructure(parent, set, st)
registerStructure(sets, parent, set, st) == registerFields(sets, parent, set, st, 1)

\* ------------------------------------------------------------------------
\* The scanner
\* ------------------------------------------------------------------------

argumentFlag == "flag"

argumentValue == "value"

\* a scanned argument
FlagArg(name) ==
    [Type |-> argumentFlag, Value |-> name, Attached |-> <<>>, AttachValid |-> FALSE]

AttachedArg(name, val) ==
    [Type |-> argumentFlag, Value |-> name, Attached |-> val, AttachValid |-> TRUE]

ValueArg(val) ==
    [Type |-> argumentValue, Value |-> val, Attached |-> <<>>, AttachValid |-> FALSE]

\* name=value with '=' neither the first nor the last character: the name,
\* the attached value and whether there is one
splitAttached(arg) ==
    LET i == Index(arg, <<"=">>)
    IN  IF i > 1 /\ i < Len(arg)
          THEN [name |-> Take(arg, i - 1), attached |-> Drop(arg, i), valid |-> TRUE]
          ELSE [name |-> arg, attached |-> <<>>, valid |-> FALSE]

\* the flag token of one character c
shortFlag(c) == <<"-", c>>

\* every character after the dash is a single-character flag of the set
allShortFlags(set, name) ==
    Len(name) > 1 /\ \A i \in 2..Len(name) : isFlag(set, shortFlag(name[i]))

\* the letters a-z and A-Z
Letters ==
    { "a", "b", "c", "d", "e", "f", "g", "h", "i", "j", "k", "l", "m",
      "n", "o", "p", "q", "r", "s", "t", "u", "v", "w", "x", "y", "z",
      "A", "B", "C", "D", "E", "F", "G", "H", "I", "J", "K", "L", "M",
      "N", "O", "P", "Q", "R", "S", "T", "U", "V", "W", "X", "Y", "Z" }

\* a mistaken isLetter: no character counts as a letter
isLetterNever(c) == FALSE

\* the character is one of a-zA-Z
isLetter(c) == c \in Letters

\* the arguments a dashed argument stands for, outside the forced regions:
\* all its characters as flags, or its first character as a flag and the
\* rest as that flag's glued value when the rest begins with no letter;
\* sp is the argument split at its '='
dashedArgs(set, arg, sp) ==
    LET name == sp.name
        last == IF sp.valid THEN AttachedArg(shortFlag(name[Len(name)]), sp.attached)
                ELSE FlagArg(shortFlag(name[Len(name)]))
        whole == IF sp.valid THEN AttachedArg(name, sp.attached) ELSE FlagArg(name)
    IN  IF HasPrefix(arg, <<"-", "-">>) THEN <<whole>>
        ELSE IF allShortFlags(set, name)
          THEN [i \in 1..(Len(name) - 1) |->
                   IF i = Len(name) - 1 THEN last ELSE FlagArg(shortFlag(name[i + 1]))]
        ELSE IF Len(name) > 2 /\ isFlag(set, shortFlag(name[2])) /\ ~isLetter(name[3])
          THEN <<(IF sp.valid THEN AttachedArg(shortFlag(name[2]), sp.attached)
                  ELSE FlagArg(shortFlag(name[2]))),
                 ValueArg(Drop(name, 2))>>
        ELSE <<whole>>

\* the arguments an argument that begins with a dash stands for
scanDashed(set, arg) == dashedArgs(set, arg, splitAttached(arg))

\* a mistaken closesRun: every dashed argument closes the run
closesRunDashed(set, arg) == arg # <<>> /\ Head(arg) = "-"

\* an argument that closes an open child run: it names a flag of this level
closesRun(set, arg) == isFlag(set, splitAttached(arg).name)

\* the argument after which all the arguments are values
valuesMarker == <<"-", "-", "*">>

\* a mistaken markerMode: '--*' asks for one value as '--' does
markerModeNext(arg) ==
    IF arg = <<"-">> THEN "flag"
    ELSE IF arg \in {<<"-", "-">>, valuesMarker} THEN "value"
    ELSE ""

\* a mistaken markerMode: '-' asks for a value next
markerModeValue(arg) ==
    IF arg \in {<<"-">>, <<"-", "-">>} THEN "value"
    ELSE IF arg = valuesMarker THEN "values"
    ELSE ""

\* what a marker asks of the arguments after it: "-" a flag next, "--" a
\* value next, "--*" values from there on ("": the argument is no marker)
markerMode(arg) ==
    IF arg = <<"-">> THEN "flag"
    ELSE IF arg = <<"-", "-">> THEN "value"
    ELSE IF arg = valuesMarker THEN "values"
    ELSE ""

\* a mistaken forcedArg: every forced argument is a value
forcedArgValue(mode, arg) == ValueArg(arg)

\* the argument a marker forces: the whole argument as a flag or as a value
forcedArg(mode, arg) == IF mode = "flag" THEN FlagArg(arg) ELSE ValueArg(arg)

\* a mistaken modeAfter: "--" hints all the arguments that follow
modeAfterKept(mode) == IF mode \in {"value", "values"} THEN "values" ELSE ""

\* the mode after a forced argument: "-" and "--" hint one argument
modeAfter(mode) == IF mode = "values" THEN "values" ELSE ""

RECURSIVE scanLevel(_, _, _, _, _, _)
\* One pass over args[i..] of a level.  mode is "" outside the forced
\* regions, "flag" when the next argument is forced to be a flag, "value"
\* when the next argument is forced to be a value and "values" when all the
\* arguments that follow are; open is the child whose run is open (<<>>:
\* none); acc holds the level's arguments, the first child and the raw
\* arguments of every child met.
scanLevel(set, args, i, mode, open, acc) ==
    IF i > Len(args) THEN acc
    ELSE
      LET arg    == args[i]
          isLast == i = Len(args)
          emit(as) == [acc EXCEPT !.Flags = acc.Flags \o as]
          toChild(c) ==
              [acc EXCEPT !.Raw = [k \in (DOMAIN acc.Raw) \cup {c} |->
                                      IF k \in DOMAIN acc.Raw
                                        THEN (IF k = c THEN Append(acc.Raw[k], arg) ELSE acc.Raw[k])
                                        ELSE <<arg>>],
                          !.FirstSubset = IF acc.FirstSubset = <<>> THEN c ELSE acc.FirstSubset]
      IN  IF open # <<>> /\ ~closesRun(set, arg)
            THEN scanLevel(set, args, i + 1, mode, open, toChild(open))
          ELSE IF mode # ""
            THEN scanLevel(set, args, i + 1, modeAfter(mode), <<>>, emit(<<forcedArg(mode, arg)>>))
          ELSE IF markerMode(arg) # ""
            THEN IF isLast THEN scanLevel(set, args, i + 1, "", <<>>, emit(<<ValueArg(arg)>>))
                 ELSE scanLevel(set, args, i + 1, markerMode(arg), <<>>, acc)
          ELSE IF arg # <<>> /\ Head(arg) = "-"
            THEN scanLevel(set, args, i + 1, "", <<>>, emit(scanDashed(set, arg)))
          ELSE IF isSubset(set, arg)
            THEN scanLevel(set, args, i + 1, "", arg, toChild(arg))
          ELSE scanLevel(set, args, i + 1, "", <<>>, emit(<<ValueArg(arg)>>))

RECURSIVE scan(_, _, _)
\* the scan result of the set f from the pass lev over its level: the raw
\* arguments of every child met are scanned as the child's own level
scanSets(sets, f, lev) ==
    [ Flags |-> lev.Flags,
      FirstSubset |-> lev.FirstSubset,
      Sets |-> [sub \in DOMAIN lev.Raw |->
                  scan(sets, sets[f].subsets[sets[f].subsetIndexes[sub]], lev.Raw[sub])] ]

\* scanner.scan: the scan result of the flag set f for args, whose first
\* element is the name of the command: the level's arguments (Flags), the
\* first child met (FirstSubset) and the scan result of every child (Sets)
scan(sets, f, args) ==
    scanSets(sets, f,
             scanLevel(sets[f], args, 2, "", <<>>,
                       [Flags |-> <<ValueArg(args[1])>>, FirstSubset |-> <<>>, Raw |-> EmptyMap]))

\* ------------------------------------------------------------------------
\* The resolver
\* ------------------------------------------------------------------------

\* envParser (os.Getenv) on the environment env: "" for an unset variable
Getenv(env, name) == IF name \in DOMAIN env THEN env[name] ELSE <<>>

\* a mistaken fromDefault: the default supplies no value
fromDefaultNone(f) == <<>>

\* the texts of the default value of f
fromDefault(f) ==
    IF ~isSlicePtr(f.Ptr) THEN <<Sprint(f.Default.kind, f.Default.v)>>
    ELSE LET texts == [i \in DOMAIN f.Default.v |-> Sprint(f.Default.kind, f.Default.v[i])]
         IN  SelectSeq(texts, LAMBDA t : t # <<>>)

\* the texts of the environment value of f
fromEnv(env, f) ==
    LET val == Getenv(env, f.Env)
    IN  IF val = <<>> THEN <<>>
        ELSE IF isSlicePtr(f.Ptr) THEN splitAndTrimSpace(val, f.ValSep)
        ELSE <<val>>

RECURSIVE applyVals(_, _, _)
\* resolver.applyVals(f, vals...): the values are applied in order up to the
\* first error; the error and the memory afterwards
applyVals(mem, f, vals) ==
    IF vals = <<>> THEN [err |-> "NoError", mem |-> mem]
    ELSE IF f.Ptr = "" THEN [err |-> "UnsupportedType", mem |-> mem]
    ELSE LET r == applyValToPtr(f.Ptr, mem[f.Ptr], Head(vals), f.Selects)
             m == [mem EXCEPT ![f.Ptr] = r.v]
         IN  IF r.err # "NoError" THEN [err |-> r.err, mem |-> m]
             ELSE applyVals(m, f, Tail(vals))

\* a mistaken fallbackVals: the default is preferred to the environment
fallbackValsDefaultFirst(env, flag) ==
    IF flag.Default.has THEN fromDefault(flag)
    ELSE IF flag.Env # <<>> THEN fromEnv(env, flag) ELSE <<>>

\* the values applyEnvAndDefault applies to a flag that was not supplied:
\* those of the environment, else those of the default
fallbackVals(env, flag) ==
    LET ev == IF flag.Env # <<>> THEN fromEnv(env, flag) ELSE <<>>
    IN  IF Len(ev) = 0 /\ flag.Default.has THEN fromDefault(flag) ELSE ev

RECURSIVE applyEnvAndDefault(_, _, _, _, _)
\* resolver.applyEnvAndDefault(f, applied), from the i-th flag of f on
applyEnvAndDefault(mem, env, f, applied, i) ==
    IF i > Len(f.flags) THEN [err |-> "NoError", mem |-> mem]
    ELSE IF i \in applied THEN applyEnvAndDefault(mem, env, f, applied, i + 1)
    ELSE LET flag == f.flags[i]
             vals == fallbackVals(env, flag)
             r    == applyVals(mem, flag, vals)
         IN  IF r.err # "NoError" THEN r
             ELSE applyEnvAndDefault(r.mem, env, f, applied, i + 1)

\* a mistaken positionalOf: the positional flags in the reverse order
positionalOfReversed(f) ==
    LET ps == SelectSeq([i \in DOMAIN f.flags |-> i],
                        LAMBDA i : f.flags[i].Names = flagNamePositional)
    IN  [i \in DOMAIN ps |-> ps[Len(ps) + 1 - i]]

\* the indexes of the positional flags of f, in the order of declaration
positionalOf(f) ==
    SelectSeq([i \in DOMAIN f.flags |-> i], LAMBDA i : f.flags[i].Names = flagNamePositional)

\* a mistaken hasFlag: no flag is ever seen among the arguments
hasFlagNever(args) == FALSE

hasFlag(args) == \E i \in DOMAIN args : args[i].Type = argumentFlag

\* the state of resolveFlags before the first argument: the memory, the
\* applied flags, the open flag (0: nil), the positional index (0-based)
resolveStart(mem) ==
    [err |-> "NoError", mem |-> mem, applied |-> {}, flag |-> 0, positionalIndex |-> 0]

\* applyValue(flag, val) in the state st
applyValue(st, f, flag, val) ==
    LET r == applyVals(st.mem, f.flags[flag], <<val>>)
    IN  [st EXCEPT !.applied = st.applied \cup {flag}, !.mem = r.mem, !.err = r.err]

\* a mistaken applyLastFlag: a flag still open is let go
applyLastFlagNever(st) == st

\* applyLastFlag(): a flag still open has no value
applyLastFlag(st) ==
    IF st.flag = 0 THEN st ELSE [st EXCEPT !.err = "FlagValueNotProvided"]

\* a mistaken appendNonFlagArg: the value is let go
appendNonFlagArgDropped(st, f, arg, args) == st

\* appendNonFlagArg(arg, args), args being the arguments from arg on
appendNonFlagArg(st, f, arg, args) ==
    LET positional == positionalOf(f)
    IN  IF \/ (st.positionalIndex >= Len(positional) /\ f.self.ArgsPtr = "")
           \/ (~f.self.ArgsAnywhere /\ hasFlag(Tail(args)))
          THEN [st EXCEPT !.err = "NonFlagValue"]
        ELSE IF st.positionalIndex < Len(positional)
          THEN LET a == applyValue(st, f, positional[st.positionalIndex + 1], arg.Value)
               IN  IF a.err # "NoError" THEN a
                   ELSE [a EXCEPT !.positionalIndex = st.positionalIndex + 1]
        ELSE [st EXCEPT !.mem = [st.mem EXCEPT ![f.self.ArgsPtr] = Append(@, arg.Value)]]

\* a mistaken flagAfterValue: a slice flag stays open for the next value
flagAfterValueSliceOpen(f, flag) == IF isSlicePtr(f.flags[flag].Ptr) THEN flag ELSE 0

\* the open flag after it consumed a value: flag = nil
flagAfterValue(f, flag) == 0

\* a mistaken flagAfterAttached: the flag stays open after its attached value
flagAfterAttachedOpen(f, flag) == flag

\* the open flag after its attached value was applied: flag = nil
flagAfterAttached(f, flag) == 0

\* a mistaken isDuplicated: no flag is ever taken for a duplicate
isDuplicatedNever(st, f, flag) == FALSE

\* a flag that was applied and is no slice may not come again
isDuplicated(st, f, flag) == flag \in st.applied /\ ~isSlicePtr(f.flags[flag].Ptr)

\* one iteration of the loop of resolveFlags, on args[i]
resolveStep(st, f, args, i) ==
    LET arg == args[i]
    IN  IF arg.Type = argumentFlag
          THEN LET l    == applyLastFlag(st)
                   flag == searchFlag(f, arg.Value)
                   o    == [l EXCEPT !.flag = flag]
               IN  IF l.err # "NoError" THEN l
                   ELSE IF flag = 0 THEN [o EXCEPT !.err = "FlagNotFound"]
                   ELSE IF isDuplicated(l, f, flag)
                     THEN [o EXCEPT !.err = "DuplicateFlagParsed"]
                   ELSE IF arg.AttachValid
                     THEN [applyValue(o, f, flag, arg.Attached)
                             EXCEPT !.flag = flagAfterAttached(f, flag)]
                   ELSE IF isBoolPtr(f.flags[flag].Ptr)
                     THEN [applyValue(o, f, flag, <<"t","r","u","e">>) EXCEPT !.flag = 0]
                   ELSE o
        ELSE IF st.flag = 0 THEN appendNonFlagArg(st, f, arg, Drop(args, i - 1))
        ELSE [applyValue(st, f, st.flag, arg.Value) EXCEPT !.flag = flagAfterValue(f, st.flag)]

RECURSIVE resolveLoop(_, _, _, _, _)
\* the iterations i..n of the loop of resolveFlags; it stops at the first error
resolveLoop(st, f, args, i, n) ==
    IF i > n \/ st.err # "NoError" THEN st
    ELSE resolveLoop(resolveStep(st, f, args, i), f, args, i + 1, n)

\* a mistaken resolveRest: the fallback runs after a failure too
resolveRestFallback(st, env, f) ==
    [err |-> IF st.err # "NoError" THEN st.err ELSE applyLastFlag(st).err,
     mem |-> applyEnvAndDefault(st.mem, env, f, st.applied, 1).mem]

\* the end of resolveFlags, st being the state the loop left: the last flag
\* is closed and the flags not applied take the environment and the default
resolveRest(st, env, f) ==
    LET l == applyLastFlag(st)
    IN  IF st.err # "NoError" THEN [err |-> st.err, mem |-> st.mem]
        ELSE IF l.err # "NoError" THEN [err |-> l.err, mem |-> l.mem]
        ELSE applyEnvAndDefault(st.mem, env, f, st.applied, 1)

\* resolver.resolveFlags(f, context, args): the error and the memory afterwards
resolveFlags(mem, env, f, args) ==
    resolveRest(resolveLoop(resolveStart(mem), f, args, 1, Len(args)), env, f)

\* a mistaken applySelf: the command met is not marked
applySelfSkipped(mem, set) == [err |-> "NoError", mem |-> mem]

\* resolveSet marks the subset it meets: "true" is applied to its own flag
applySelf(mem, set) == applyVals(mem, set.self, <<<<"t","r","u","e">>>>)

\* a mistaken choice of the last set: that of every subset visited
lastSubsetOf(sub, first, set, found, last) == IF found = 0 THEN set ELSE found

\* the last set after the subset sub (the flag set set) was resolved and
\* found as its own last set (0: nil): that of the first subset the scanner
\* met, else the one held so far
lastSubset(sub, first, set, found, last) ==
    IF sub = first THEN (IF found = 0 THEN set ELSE found) ELSE last

RECURSIVE resolveSet(_, _, _, _, _)
RECURSIVE resolveSubsets(_, _, _, _, _, _, _)
\* The loop of resolveSet over the entries of args.Sets still to visit
\* (todo).  Go visits the entries of a map in an unspecified order, so the
\* result is the set of the outcomes of all orders; last is the last set
\* found so far (0: nil).
resolveSubsets(sets, mem, env, f, args, todo, last) ==
    IF todo = {} THEN {[err |-> "NoError", mem |-> mem, last |-> IF last = 0 THEN f ELSE last]}
    ELSE UNION {
        LET set  == sets[f].subsets[sets[f].subsetIndexes[sub]]
            self == applySelf(mem, sets[set])
        IN  IF self.err # "NoError" THEN {[err |-> self.err, mem |-> self.mem, last |-> 0]}
            ELSE UNION {
                IF o.err # "NoError" THEN {o}
                ELSE resolveSubsets(sets, o.mem, env, f, args, todo \ {sub},
                                    lastSubset(sub, args.FirstSubset, set, o.last, last))
                : o \in resolveSet(sets, self.mem, env, set, args.Sets[sub]) }
        : sub \in todo }

\* resolver.resolveSet(f, context, args): the possible outcomes, each the
\* error, the memory afterwards and the last set (0: nil, on error)
resolveSet(sets, mem, env, f, args) ==
    UNION { IF r.err # "NoError" THEN {[err |-> r.err, mem |-> r.mem, last |-> 0]}
            ELSE resolveSubsets(sets, r.mem, env, f, args, DOMAIN args.Sets, 0)
            : r \in {resolveFlags(mem, env, sets[f], Tail(args.Flags))} }

\* resetPtrVal(ptr): the zero value *ptr holds afterwards
resetPtrVal(ptr) == ZeroOf(ptr)

\* a mistaken resetArgs: the overflow arguments are kept
resetArgsKept(mem, set) == mem

\* *f.self.ArgsPtr = nil, when the set has an ArgsPtr
resetArgs(mem, set) ==
    IF set.self.ArgsPtr # "" THEN [mem EXCEPT ![set.self.ArgsPtr] = <<>>] ELSE mem

\* the memory with the set's own value and the values of its flags reset
resetOwn(mem, set) ==
    LET a == resetArgs(mem, set)
    IN  [p \in Ptrs |->
            IF p = set.self.Ptr \/ (\E i \in DOMAIN set.flags : set.flags[i].Ptr = p)
              THEN resetPtrVal(p) ELSE a[p]]

RECURSIVE reset(_, _, _)
\* a mistaken reset: the subsets are not reset
resetShallow(sets, mem, f) == resetOwn(mem, sets[f])

\* resolver.reset(f): the memory with every value the tree of f points to
\* at its zero value
reset(sets, mem, f) ==
    LET set == sets[f]
        subs[i \in 0..Len(set.subsets)] ==
            IF i = 0 THEN resetOwn(mem, set) ELSE reset(sets, subs[i - 1], set.subsets[i])
    IN  subs[Len(set.subsets)]

\* ------------------------------------------------------------------------
\* FlagSet: Parse
\* ------------------------------------------------------------------------

\* one pair of help flags is registered unless one of its names is in use:
\* whether it was registered, and the tree afterwards
registerFlagsIfNotDuplicated(sets, parent, set, names, ptr, usage) ==
    IF findDuplicates(sets, parent, set, names) # <<>>
      THEN [registered |-> FALSE, err |-> "NoError", sets |-> sets]
    ELSE LET r == registerFlag(sets, parent, set,
                    [Flag0 EXCEPT !.Ptr = ptr, !.Names = Join(names, <<",">>), !.Usage = usage])
         IN  [registered |-> r.err = "NoError", err |-> r.err, sets |-> r.sets]

\* the second call of registerHelpFlags, h being the result of the first:
\* -v, --verbose for a set with subsets whose -h, --help was registered
registerVerboseFlags(h, parent, set) ==
    IF h.err = "NoError" /\ h.registered /\ Len(h.sets[set].subsets) > 0
      THEN [registerFlagsIfNotDuplicated(h.sets, parent, set,
                <<<<"-","v">>, <<"-","-","v","e","r","b","o","s","e">>>>, "Verbose", <<"v">>)
            EXCEPT !.registered = h.registered]
    ELSE h

\* registerHelpFlags(r, parent, set, flags): -h, --help and, for a set with
\* subsets, -v, --verbose
registerHelpFlags(sets, parent, set) ==
    registerVerboseFlags(
        registerFlagsIfNotDuplicated(sets, parent, set,
            <<<<"-","h">>, <<"-","-","h","e","l","p">>>>, "ShowHelp", <<"h">>),
        parent, set)

\* the help flags Parse registers on the root unless the set has none or
\* defined its own: whether -h was registered, the error, the tree afterwards
parseHelpFlags(sets) ==
    IF ~sets[Root].noHelpFlag /\ ~sets[Root].helpFlagDefined
      THEN registerHelpFlags(sets, 0, Root)
      ELSE [registered |-> FALSE, err |-> "NoError", sets |-> sets]

\* Parse after the registration reg of the help flags: the arguments are
\* scanned and resolved, and the help is shown when its flag was given
parseArgs(reg, mem, env, args) ==
    IF reg.err # "NoError"
      THEN {[sets |-> reg.sets, err |-> reg.err, mem |-> mem, last |-> 0, exit |-> FALSE]}
    ELSE { [sets |-> reg.sets, err |-> o.err, mem |-> o.mem, last |-> o.last,
            exit |-> o.err = "NoError" /\ reg.registered /\ o.mem["ShowHelp"]]
           : o \in resolveSet(reg.sets, mem, env, Root, scan(reg.sets, Root, args)) }

\* FlagSet.Parse(args...) on the root, with the error handling that returns
\* the error: the possible outcomes, each the tree afterwards, the error,
\* the memory, resolver.LastSet and whether the help was shown and the
\* process left
ParseOutcomes(sets, mem, env, args) == parseArgs(parseHelpFlags(sets), mem, env, args)

\* FlagSet.Reset()
Reset(sets, mem) == reset(sets, mem, Root)

\* FlagSet.Flag(flag): the register is called without a parent
FlagSetFlag(sets, f, flag) == registerFlag(sets, 0, f, flag)

\* FlagSet.Subset(flag)
FlagSetSubset(sets, f, flag) == registerSet(sets, 0, f, flag)

\* FlagSet.StructFlags(val, parent...): parent is 0 when none is passed
FlagSetStructFlags(sets, f, val, parent) == registerStructure(sets, parent, f, val)

\* ------------------------------------------------------------------------
\* The command model of the parsing specification: an archiver with two
\* child commands, one of them with a child of its own
\* ------------------------------------------------------------------------

BoolDefault(b) == [has |-> TRUE, kind |-> "bool", slice |-> FALSE, v |-> b]

StringDefault(str) == [has |-> TRUE, kind |-> "string", slice |-> FALSE, v |-> str]

StringsDefault(strs) == [has |-> TRUE, kind |-> "string", slice |-> TRUE, v |-> strs]

NumberDefault(n) == [has |-> TRUE, kind |-> "float64", slice |-> FALSE, v |-> n]

\* the root command and its flags, in the order of their registration
TarRoot ==
    FlagSetFlag(
      FlagSetFlag(
        FlagSetFlag(
          FlagSetFlag(
            FlagSetFlag(
              <<newFlagSet([Flag0 EXCEPT !.Names = <<"t","a","r">>, !.ArgsPtr = "Args"])>>, Root,
              [Flag0 EXCEPT !.Names = <<"-","z",","," ","-","-","g","z">>, !.Ptr = "GZ"]).sets, Root,
            [Flag0 EXCEPT !.Names = <<"-","c">>, !.Ptr = "Create"]).sets, Root,
          [Flag0 EXCEPT !.Names = <<"-","f">>, !.Ptr = "File", !.Env = <<"F">>,
                        !.Default = StringDefault(<<"d">>)]).sets, Root,
        [Flag0 EXCEPT !.Names = <<"-","I">>, !.Ptr = "Include", !.Env = <<"I">>,
                      !.Default = StringsDefault(<<<<"x">>, <<"y">>>>)]).sets, Root,
      [Flag0 EXCEPT !.Names = <<"-","n">>, !.Ptr = "Level", !.Default = NumberDefault(2)]).sets

\* the flags of the child command b, the result of its registration
TarBuild(b) ==
    FlagSetFlag(
      FlagSetFlag(
        FlagSetFlag(b.sets, b.child,
          [Flag0 EXCEPT !.Names = <<"-","o">>, !.Ptr = "Output",
                        !.Default = StringDefault(<<"o">>)]).sets, b.child,
        [Flag0 EXCEPT !.Names = <<"-","r">>, !.Ptr = "Race"]).sets, b.child,
      [Flag0 EXCEPT !.Names = flagNamePositional, !.Ptr = "Pkg"]).sets

\* the flag of the command m, the result of its registration
TarMod(m) ==
    FlagSetFlag(m.sets, m.child,
      [Flag0 EXCEPT !.Names = <<"-","t">>, !.Ptr = "Tidy", !.Default = BoolDefault(TRUE)]).sets

\* the flag and the child command m of the child command k
TarClean(k) ==
    TarMod(FlagSetSubset(
             FlagSetFlag(k.sets, k.child, [Flag0 EXCEPT !.Names = <<"-","x">>, !.Ptr = "Cache"]).sets,
             k.child, [Flag0 EXCEPT !.Names = <<"m">>, !.Ptr = "ModEnable"]))

\* the tree of the archiver: the root, its child b, its child k
TarModel ==
    TarClean(FlagSetSubset(
               TarBuild(FlagSetSubset(TarRoot, Root,
                          [Flag0 EXCEPT !.Names = <<"b">>, !.Ptr = "BuildEnable",
                                        !.ArgsPtr = "Packages"])),
               Root, [Flag0 EXCEPT !.Names = <<"k">>, !.Ptr = "CleanEnable"]))

\* the name of the program, the first argument of Parse
ProgName == <<"t","a","r">>

\* ------------------------------------------------------------------------
\* The inputs of Parse
\* ------------------------------------------------------------------------

SeqsUpTo(W, n) == UNION {[1..k -> W] : k \in 0..n}

\* combined and single short flags, an alias and a value
ShortWords == { <<"-","z","c","f">>, <<"-","z","c">>, <<"-","z">>, <<"-","f">>,
                <<"-","-","g","z">>, <<"a">> }

\* a boolean flag and a boolean literal, flags with an attached value
ValueWords == { <<"-","z">>, <<"f","a","l","s","e">>, <<"-","f","=","a">>,
                <<"-","n","=","1">>, <<"-","I","=","u">>, <<"a">>,
                <<"-","z","=","f","a","l","s","e">> }

\* child commands, their flags and a flag of the root
ChildWords == { <<"b">>, <<"k">>, <<"m">>, <<"-","o">>, <<"a">>, <<"-","z">> }

\* flags of the children and of the help
DeepWords == { <<"k">>, <<"m">>, <<"-","t">>, <<"-","x">>, <<"-","r","o">>, <<"-","h">> }

\* a slice flag and its values
SliceWords == { <<"-","I">>, <<"a">>, <<"u">> }

\* the markers, two flags, a dashed word that names no flag, a value
MarkerWords == { <<"-">>, <<"-","-">>, <<"-","-","*">>, <<"-","z">>, <<"-","f">>,
                 <<"-","q">>, <<"a">> }

\* the lists of these in which something follows the marker of all values
MarkerLists == {a \in SeqsUpTo(MarkerWords, MaxArgs) : a = <<>> \/ a[Len(a)] # <<"-","-","*">>}

\* flags with a value glued to them, the same flags and value apart, a
\* flag with a letter glued to it
GluedWords == { <<"-","f","/">>, <<"-","f">>, <<"/">>, <<"-","f","=","/">>,
                <<"-","I","/","u">>, <<"-","z","/">>, <<"-","I","u">> }

\* a slice flag, the marker of a value and arguments that look like flags
HintWords == { <<"-","I">>, <<"-","-">>, <<"-","f","=","a">>, <<"-","z">> }

\* the argument lists handed to Parse, without the name of the program; a
\* slice flag is followed by as many values as the other lists are long,
\* and by two hinted values
ArgLists ==
    SeqsUpTo(ShortWords, MaxArgs) \cup SeqsUpTo(ValueWords, MaxArgs)
      \cup SeqsUpTo(ChildWords, MaxArgs) \cup SeqsUpTo(DeepWords, MaxArgs)
      \cup SeqsUpTo(SliceWords, MaxArgs + 1)
      \cup MarkerLists \cup SeqsUpTo(HintWords, MaxArgs + 2)
      \cup SeqsUpTo(GluedWords, MaxArgs)

\* the environments: no variable set, and the variables of -f and -I set
NoEnv == EmptyMap

Envs == { NoEnv,
          [n \in {<<"F">>} |-> <<"e">>],
          [n \in {<<"I">>} |-> <<"p", ",", " ", "q">>] }

\* the argument lists parsed under an environment that sets a variable
EnvArgLists == SeqsUpTo({<<"-","f">>, <<"-","I">>, <<"a">>, <<"u">>}, MaxArgs)

\* a call of Parse: its arguments and the environment of the process
ParseInputs == (ArgLists \X {NoEnv}) \cup (EnvArgLists \X Envs)

\* ------------------------------------------------------------------------
\* The state machine
\* ------------------------------------------------------------------------

VARIABLES
    sets,     \* the tree of flag sets, sets[Root] the root
    mem,      \* the values the flags' pointers point to
    env,      \* the environment of the process at the last Parse
    phase,    \* "ready": built or reset; "parsed"; "exited": help was shown
    reused,   \* the model went through a Parse and a Reset
    args,     \* the arguments of the last Parse
    err,      \* the error of the last operation
    last,     \* resolver.LastSet of the last Parse (0: nil)
    pre,      \* the memory the last Parse started from
    regs,     \* the number of registrations performed on the tree
    old,      \* the tree before the last registration
    op        \* the last registration: its kind, the set and the names

vars == <<sets, mem, env, phase, reused, args, err, last, pre, regs, old, op, arch>>

\* no registration was performed
NoOp == [kind |-> "none", set |-> 0, names |-> <<>>]

Init ==
    /\ arch \in Archs
    /\ sets = TarModel
    /\ mem = ZeroMem
    /\ env = NoEnv
    /\ phase = "ready"
    /\ reused = FALSE
    /\ args = <<>>
    /\ err = "NoError"
    /\ last = 0
    /\ pre = ZeroMem
    /\ regs = 0
    /\ old = sets
    /\ op = NoOp

\* FlagSet.Parse(ProgName, a...) under the environment e.  Callers parse a
\* model that is new or was reset.
Parse(a, e) ==
    /\ phase = "ready"
    /\ \E o \in ParseOutcomes(sets, mem, e, <<ProgName>> \o a) :
          /\ sets' = o.sets
          /\ mem' = o.mem
          /\ err' = o.err
          /\ last' = o.last
          /\ phase' = IF o.exit THEN "exited" ELSE "parsed"
    /\ env' = e
    /\ args' = a
    /\ pre' = mem
    /\ UNCHANGED <<reused, regs, old, op, arch>>

\* FlagSet.Reset()
DoReset ==
    /\ phase = "parsed"
    /\ mem' = Reset(sets, mem)
    /\ phase' = "ready"
    /\ reused' = TRUE
    /\ args' = <<>>
    /\ err' = "NoError"
    /\ last' = 0
    /\ env' = NoEnv
    /\ pre' = ZeroMem
    /\ UNCHANGED <<sets, regs, old, op, arch>>

Next ==
    \/ \E in \in ParseInputs : Parse(in[1], in[2])
    \/ DoReset

Spec == Init /\ [][Next]_vars

\* ------------------------------------------------------------------------
\* The state machine of the registration: a tree is built from an empty
\* root by Flag, Subset and StructFlags
\* ------------------------------------------------------------------------

\* the names registered: two flag names and the name of a command
RegNames == { <<"-","x">>, <<"-","y">>, <<"c">> }

\* the structures registered: a flag; a child with a flag of the same name
\* as a flag of its grandparent; a child without the field Enable
RegStructs ==
    { << FlagField(<<"-","x">>, "GZ") >>,
      << FlagField(<<"-","y">>, "Create"),
         StructField(<<"c">>, << EnableField("BuildEnable"),
                                 StructField(<<"d">>, << EnableField("ModEnable"),
                                                         FlagField(<<"-","y">>, "Tidy") >>) >>) >>,
      << StructField(<<"k">>, << FlagField(<<"-","x">>, "Cache") >>) >> }

\* the parent of the set f in the tree (0 for the root)
parentOf(tree, f) ==
    IF \E p \in DOMAIN tree : f \in Range(tree[p].subsets)
      THEN CHOOSE p \in DOMAIN tree : f \in Range(tree[p].subsets)
      ELSE 0

RECURSIVE validHandle(_, _)
\* Subset returns the address of the element it appended to the parent's
\* slice of subsets; the next append to that slice may move the elements, so
\* a caller registers on a set only while it is the last subset of its
\* parent, and the parent is such a set or the root.
validHandle(tree, f) ==
    \/ f = Root
    \/ LET p == parentOf(tree, f)
       IN  p # 0 /\ tree[p].subsets[Len(tree[p].subsets)] = f /\ validHandle(tree, p)

InitReg ==
    /\ arch \in Archs
    /\ sets = <<newFlagSet([Flag0 EXCEPT !.Names = ProgName])>>
    /\ mem = ZeroMem
    /\ env = NoEnv
    /\ phase = "building"
    /\ reused = FALSE
    /\ args = <<>>
    /\ err = "NoError"
    /\ last = 0
    /\ pre = ZeroMem
    /\ regs = 0
    /\ old = sets
    /\ op = NoOp

\* what every registration does to the state: r is its result
Registered(r, kind, f, names) ==
    /\ regs < MaxRegs
    /\ validHandle(sets, f)
    /\ sets' = r.sets
    /\ err' = r.err
    /\ regs' = regs + 1
    /\ old' = sets
    /\ op' = [kind |-> kind, set |-> f, names |-> names]
    /\ UNCHANGED <<mem, env, phase, reused, args, last, pre, arch>>

\* f.Flag(Flag{Names: n, Ptr: ...})
DoFlag(f, n) ==
    Registered(FlagSetFlag(sets, f, [Flag0 EXCEPT !.Names = n, !.Ptr = "GZ"]), "Flag", f, <<n>>)

\* f.Subset(Flag{Names: n})
DoSubset(f, n) ==
    Registered(FlagSetSubset(sets, f, [Flag0 EXCEPT !.Names = n]), "Subset", f, <<n>>)

\* f.StructFlags(st) and f.StructFlags(st, parent of f)
DoStructFlags(f, st, withParent) ==
    /\ withParent => f # Root
    /\ Registered(FlagSetStructFlags(sets, f, st, IF withParent THEN parentOf(sets, f) ELSE 0),
                  "StructFlags", f, <<>>)

NextReg ==
    \E f \in DOMAIN sets :
       \/ \E n \in RegNames : DoFlag(f, n)
       \/ \E n \in RegNames : DoSubset(f, n)
       \/ \E st \in RegStructs : \E withParent \in BOOLEAN : DoStructFlags(f, st, withParent)

SpecReg == InitReg /\ [][NextReg]_vars

\* ------------------------------------------------------------------------
\* The state machine of the metadata: UpdateMeta on the archiver
\* ------------------------------------------------------------------------

RECURSIVE searchSections(_, _, _, _)
\* the loop of searchChildrenFlag from the i-th section, in the set cur:
\* the error, the set found and the flag found in it (0: the set itself)
searchSections(tree, cur, sections, i) ==
    IF i > Len(sections) THEN [err |-> "NoError", set |-> cur, flag |-> 0]
    ELSE IF sections[i] \in DOMAIN tree[cur].subsetIndexes
      THEN searchSections(tree, tree[cur].subsets[tree[cur].subsetIndexes[sections[i]]],
                          sections, i + 1)
    ELSE IF i # Len(sections) \/ sections[i] \notin DOMAIN tree[cur].flagIndexes
      THEN [err |-> "FlagNotFound", set |-> 0, flag |-> 0]
    ELSE [err |-> "NoError", set |-> cur, flag |-> tree[cur].flagIndexes[sections[i]]]

\* register.searchChildrenFlag(set, children)
searchChildrenFlag(tree, set, children) ==
    searchSections(tree, set, splitAndTrimSpace(children, flagNameSeparatorForSplit), 1)

\* what updateMeta does to the flag it found: the error and the flag
\* afterwards, which keeps what was assigned before an error
metaFields(flag, meta) ==
    LET f1   == [flag EXCEPT
                   !.Desc = IF meta.Desc # <<>> THEN meta.Desc ELSE @,
                   !.Version = IF meta.Version # <<>> THEN meta.Version ELSE @,
                   !.Arglist = IF meta.Arglist # <<>> THEN meta.Arglist ELSE @,
                   !.Usage = IF meta.Usage # <<>> THEN meta.Usage ELSE @]
        derr == IF meta.Default.has THEN updateFlagDefault(f1, meta.Default) ELSE "NoError"
        f2   == IF meta.Default.has THEN [f1 EXCEPT !.Default = meta.Default] ELSE f1
        serr == IF meta.Selects.has THEN updateFlagSelects(f2, meta.Selects) ELSE "NoError"
        f3   == IF meta.Selects.has THEN [f2 EXCEPT !.Selects = meta.Selects] ELSE f2
    IN  IF derr # "NoError" THEN [err |-> derr, flag |-> f1]
        ELSE IF serr # "NoError" THEN [err |-> serr, flag |-> f2]
        ELSE [err |-> "NoError",
              flag |-> cleanFlag([f3 EXCEPT !.Env = IF meta.Env # <<>> THEN meta.Env ELSE @])]

\* register.updateMeta(set, children, meta): the error and the tree afterwards
updateMeta(tree, set, children, meta) ==
    LET s == searchChildrenFlag(tree, set, children)
    IN  IF s.err # "NoError" THEN [err |-> s.err, sets |-> tree]
        ELSE IF s.flag = 0
          THEN [err |-> metaFields(tree[s.set].self, meta).err,
                sets |-> [tree EXCEPT ![s.set].self = metaFields(@, meta).flag]]
        ELSE [err |-> metaFields(tree[s.set].flags[s.flag], meta).err,
              sets |-> [tree EXCEPT ![s.set].flags[s.flag] = metaFields(@, meta).flag]]

\* the children identifiers: a flag of the root, a child, a flag of a child,
\* a name that is not registered, the empty identifier
MetaChildren ==
    { <<"-","f">>, <<"b">>, <<"b",","," ","-","o">>, <<"q">>, <<>> }

\* the metadata: the four texts; a description and a default; a variable
\* and selectable values
Metas ==
    { [Flag0 EXCEPT !.Desc = <<"s">>, !.Usage = <<"u">>, !.Arglist = <<"g">>, !.Version = <<"v">>],
      [Flag0 EXCEPT !.Desc = <<"s">>, !.Default = StringDefault(<<"e">>)],
      [Flag0 EXCEPT !.Env = <<"E">>, !.Selects = Some(<< <<"a">>, <<"u">> >>)] }

\* FlagSet.UpdateMeta(children, meta) on the root
DoUpdateMeta(children, meta) ==
    Registered(updateMeta(sets, Root, children, meta), "UpdateMeta", Root, <<children>>)

NextMeta == \E c \in MetaChildren : \E meta \in Metas : DoUpdateMeta(c, meta)

SpecMeta == Init /\ [][NextMeta]_vars

\* ------------------------------------------------------------------------
\* The state machine of the positional flags: a copy command with two
\* positional flags and an overflow sink, a child whose non-flag values may
\* come anywhere, a child without an overflow sink
\* ------------------------------------------------------------------------

\* The set f with one more positional flag.  The resolver collects the
\* flags named flagNamePositional in the order of f.flags; the register of
\* the sources indexes flags by name and takes a second such name for a
\* duplicate, so the flag is put into the set as the resolver reads it.
withPositional(tree, f, ptr) ==
    [tree EXCEPT ![f].flags =
        Append(@, cleanFlag([Flag0 EXCEPT !.Names = flagNamePositional, !.Ptr = ptr])),
                 ![f].flagIndexes =
        addIndexes(@, <<flagNamePositional>>, Len(tree[f].flags) + 1)]

\* cp -f SOURCE DESTINATION [ARG]...
CpRoot ==
    withPositional(
      withPositional(
        FlagSetFlag(<<newFlagSet([Flag0 EXCEPT !.Names = <<"c","p">>, !.ArgsPtr = "Rest"])>>,
                    Root, [Flag0 EXCEPT !.Names = <<"-","f">>, !.Ptr = "Force"]).sets,
        Root, "Source"),
      Root, "Destination")

\* the flags of the child mv, the result of its registration: -i TARGET
CpMove(c) ==
    withPositional(
      FlagSetFlag(c.sets, c.child, [Flag0 EXCEPT !.Names = <<"-","i">>, !.Ptr = "Interactive"]).sets,
      c.child, "Target")

\* the flags of the child ln, the result of its registration: -s LINK
CpLink(c) ==
    withPositional(
      FlagSetFlag(c.sets, c.child, [Flag0 EXCEPT !.Names = <<"-","s">>, !.Ptr = "Symbolic"]).sets,
      c.child, "Link")

\* the tree of the copy command: mv takes its non-flag values anywhere and
\* has an overflow sink, ln has none
CpModel ==
    CpLink(FlagSetSubset(
             CpMove(FlagSetSubset(CpRoot, Root,
                      [Flag0 EXCEPT !.Names = <<"m","v">>, !.Ptr = "MvEnable",
                                    !.ArgsPtr = "More", !.ArgsAnywhere = TRUE])),
             Root, [Flag0 EXCEPT !.Names = <<"l","n">>, !.Ptr = "LnEnable"]))

\* values, the flags of the three commands and the names of the children
CpWords == { <<"a">>, <<"u">>, <<"-","f">>, <<"m","v">>, <<"-","i">>, <<"l","n">>, <<"-","s">> }

\* the argument lists: long enough for the two positional flags, two
\* overflow values and a flag
CpArgLists == SeqsUpTo(CpWords, MaxArgs + 1)

\* the hints of rm -- -a.go -b.go, for a command that takes its values
\* anywhere: a flag, a dashed word that names no flag, a value
CpHintWords == { <<"m","v">>, <<"-","-">>, <<"-","-","*">>, <<"-","i">>, <<"-","q">>, <<"a">> }

\* the lists of these in which something follows the marker of all values
CpHintLists ==
    {a \in SeqsUpTo(CpHintWords, MaxArgs + 1) : a = <<>> \/ a[Len(a)] # <<"-","-","*">>}

InitCp ==
    /\ arch \in Archs
    /\ sets = CpModel
    /\ mem = ZeroMem
    /\ env = NoEnv
    /\ phase = "ready"
    /\ reused = FALSE
    /\ args = <<>>
    /\ err = "NoError"
    /\ last = 0
    /\ pre = ZeroMem
    /\ regs = 0
    /\ old = sets
    /\ op = NoOp

NextCp ==
    \/ \E a \in CpArgLists \cup CpHintLists : Parse(a, NoEnv)
    \/ DoReset

SpecCp == InitCp /\ [][NextCp]_vars

\* ------------------------------------------------------------------------
\* The state machine of the parses that meet two children
\* ------------------------------------------------------------------------

\* the two children of the archiver, a flag of the second child that the
\* first has not, a flag of the root, which closes a run, and a value, which
\* the second child refuses
RunWords == { <<"b">>, <<"k">>, <<"-","x">>, <<"-","z">>, <<"a">> }

\* the argument lists: long enough for two runs with an argument each and
\* the flag between them
RunLists == SeqsUpTo(RunWords, MaxArgs + 2)

NextRun ==
    \/ \E a \in RunLists : Parse(a, NoEnv)
    \/ DoReset

SpecRun == Init /\ [][NextRun]_vars

\* ------------------------------------------------------------------------
\* The state machine of the conversions: a command whose flags have numeric
\* sinks, selectable values, an environment variable and defaults
\* ------------------------------------------------------------------------

\* conv -t FLIP... -n NUM -l LVL... -m MODE, with the child c -k KIND: the
\* values of -l are selected from 1 and 2, those of -m and -k from a and u;
\* the default of -k is none of its selectable values
ConvModel ==
    LET root == FlagSetFlag(FlagSetFlag(FlagSetFlag(FlagSetFlag(
                    <<newFlagSet([Flag0 EXCEPT !.Names = <<"c","o","n","v">>])>>,
                    Root, [Flag0 EXCEPT !.Names = <<"-","t">>, !.Ptr = "Flips"]).sets,
                    Root, [Flag0 EXCEPT !.Names = <<"-","n">>, !.Ptr = "Num"]).sets,
                    Root, [Flag0 EXCEPT !.Names = <<"-","l">>, !.Ptr = "Lvls",
                                        !.Selects = Some(<<1, 2>>)]).sets,
                    Root, [Flag0 EXCEPT !.Names = <<"-","m">>, !.Ptr = "Mode",
                                        !.Selects = Some(<< <<"a">>, <<"u">> >>),
                                        !.Env = <<"M">>,
                                        !.Default = StringDefault(<<"a">>)]).sets
        c    == FlagSetSubset(root, Root, [Flag0 EXCEPT !.Names = <<"c">>, !.Ptr = "SubEnable"])
    IN  FlagSetFlag(c.sets, c.child,
                    [Flag0 EXCEPT !.Names = <<"-","k">>, !.Ptr = "Kind",
                                  !.Selects = Some(<< <<"a">>, <<"u">> >>),
                                  !.Default = StringDefault(<<"e">>)]).sets

\* a boolean literal and a text that is none, numbers in and out of the
\* range of the sink of -n and a text that is no number, values in and out
\* of the selectable values, the child and its flag
ConvWords ==
    { <<"-","t","=","y">>, <<"-","t","=","x">>,
      <<"-","n","=","3","0","0">>, <<"-","n","=","-","1">>, <<"-","n","=","x">>,
      <<"-","n","=","7">>, <<"-","l","=","1">>, <<"-","l","=","3">>, <<"-","l","=","x">>,
      <<"-","m","=","e">>, <<"c">>, <<"-","k","=","a">> }

\* the environments: the variable of -m unset, set to a selectable value and
\* set to another value
ConvEnvs == { NoEnv, [n \in {<<"M">>} |-> <<"u">>], [n \in {<<"M">>} |-> <<"e">>] }

\* a call of Parse on the command of the conversions
ConvInputs ==
    (SeqsUpTo(ConvWords, MaxArgs) \X {NoEnv})
      \cup (SeqsUpTo({<<"-","m","=","u">>, <<"-","l","=","1">>}, MaxArgs) \X ConvEnvs)

InitConv ==
    /\ arch \in Archs
    /\ sets = ConvModel
    /\ mem = ZeroMem
    /\ env = NoEnv
    /\ phase = "ready"
    /\ reused = FALSE
    /\ args = <<>>
    /\ err = "NoError"
    /\ last = 0
    /\ pre = ZeroMem
    /\ regs = 0
    /\ old = sets
    /\ op = NoOp

NextConv ==
    \/ \E in \in ConvInputs : Parse(in[1], in[2])
    \/ DoReset

SpecConv == InitConv /\ [][NextConv]_vars

\* ------------------------------------------------------------------------
\* Notions the properties are stated with.  They read the flags and the
\* commands from the registered records, not from the index maps the scanner
\* and the resolver look names up in.
\* ------------------------------------------------------------------------

\* a Parse was performed and not yet reset
Parsed == phase \in {"parsed", "exited"}

\* the flag sets of the tree
Levels == DOMAIN sets

\* the names a registered flag or command answers to
NamesOf(flag) == Range(Split(flag.Names, flagNameSeparatorForJoin))

\* the names of the flags of the level f
FlagNames(f) == UNION {NamesOf(sets[f].flags[i]) : i \in DOMAIN sets[f].flags}

\* the flag of the level f called name (0: none)
FlagByName(f, name) ==
    IF name \in FlagNames(f)
      THEN CHOOSE i \in DOMAIN sets[f].flags : name \in NamesOf(sets[f].flags[i])
      ELSE 0

\* the direct children of the level f and their names
Children(f) == Range(sets[f].subsets)

SubsetNames(f) == UNION {NamesOf(sets[c].self) : c \in Children(f)}

ChildNamed(f, name) == CHOOSE c \in Children(f) : name \in NamesOf(sets[c].self)

\* the parent of a level below the root
Parent(f) == CHOOSE p \in Levels : f \in Children(p)

\* the sinks of the flags of the level f and its overflow sink
OwnSinks(f) ==
    {sets[f].flags[i].Ptr : i \in DOMAIN sets[f].flags} \cup ({sets[f].self.ArgsPtr} \ {""})

\* every sink of the tree
TreeSinks == UNION {OwnSinks(f) \cup ({sets[f].self.Ptr} \ {""}) : f \in Levels}

\* the error and the sinks of a set of outcomes
Results(outs) == {[err |-> o.err, mem |-> o.mem, last |-> o.last] : o \in outs}

\* the outcomes of resolving the level f on the raw arguments a that follow
\* its name, from the memory m under the environment e
LevelResults(f, m, e, a) ==
    Results(resolveSet(sets, m, e, f, scan(sets, f, <<ProgName>> \o a)))

\* the arguments the scanner hands the resolver of the level f for a
LevelTokens(f, a) ==
    scanLevel(sets[f], <<ProgName>> \o a, 2, "", <<>>,
              [Flags |-> <<>>, FirstSubset |-> <<>>, Raw |-> EmptyMap]).Flags

\* the state of the resolver of the level f after the first n of the tokens T
After(f, m, T, n) == resolveLoop(resolveStart(m), sets[f], T, 1, n)

\* the sinks that are sequences and the sinks of booleans, by their types
IsSliceSink(p) == PtrType[p] \in {"[]string", "[]bool", "[]int", "[]uint8"}

IsBoolSink(p) == PtrType[p] \in {"bool", "[]bool"}

\* the flag of the level f a token names (0: a value, or no flag of f)
TokenFlag(f, t) == IF t.Type = argumentFlag THEN FlagByName(f, t.Value) ELSE 0

\* the text the i-th token of T supplies to the flag it names: the attached
\* value, true for a boolean flag, the value that follows otherwise
SuppliedAt(f, T, i) ==
    IF T[i].AttachValid THEN <<T[i].Attached>>
    ELSE IF IsBoolSink(sets[f].flags[TokenFlag(f, T[i])].Ptr) THEN << <<"t","r","u","e">> >>
    ELSE IF i < Len(T) /\ T[i + 1].Type = argumentValue THEN <<T[i + 1].Value>>
    ELSE <<>>

RECURSIVE rawTags(_, _, _, _, _)
\* What each raw argument of a level is: "child" with the child whose run it
\* belongs to, "marker" for a '-', '--' or '--*' that forces what follows,
\* "forced" for an argument a marker forces, "plain" for every other
\* argument.
rawTags(f, a, i, mode, open) ==
    IF i > Len(a) THEN <<>>
    ELSE
      LET arg == a[i]
          tag(t, c) == <<[tag |-> t, child |-> c]>>
      IN  IF open # <<>> /\ splitAttached(arg).name \notin FlagNames(f)
            THEN tag("child", open) \o rawTags(f, a, i + 1, mode, open)
          ELSE IF mode = "values" THEN tag("forced", <<>>) \o rawTags(f, a, i + 1, "values", <<>>)
          ELSE IF mode \in {"flag", "value"}
            THEN tag("forced", <<>>) \o rawTags(f, a, i + 1, "", <<>>)
          ELSE IF arg \in {<<"-">>, <<"-", "-">>, <<"-", "-", "*">>}
            THEN IF i = Len(a) THEN tag("plain", <<>>)
                 ELSE tag("marker", <<>>)
                        \o rawTags(f, a, i + 1,
                                    IF arg = <<"-">> THEN "flag"
                                    ELSE IF arg = <<"-", "-">> THEN "value" ELSE "values", <<>>)
          ELSE IF arg # <<>> /\ Head(arg) = "-"
            THEN tag("plain", <<>>) \o rawTags(f, a, i + 1, "", <<>>)
          ELSE IF arg \in SubsetNames(f)
            THEN tag("child", arg) \o rawTags(f, a, i + 1, "", arg)
          ELSE tag("plain", <<>>) \o rawTags(f, a, i + 1, "", <<>>)

TagsAt(f, a) == rawTags(f, a, 1, "", <<>>)

RECURSIVE Flatten(_)
Flatten(ss) == IF ss = <<>> THEN <<>> ELSE Head(ss) \o Flatten(Tail(ss))

\* the texts the tokens T supply to the flag g of the level f, in order
Supplied(f, T, g) ==
    Flatten([i \in DOMAIN T |-> IF TokenFlag(f, T[i]) = g THEN SuppliedAt(f, T, i) ELSE <<>>])

\* a single-dash argument without '=' whose characters are all
\* single-character flags of the level f, written out flag by flag
Combined(f, arg) ==
    /\ Len(arg) > 2 /\ arg[1] = "-" /\ arg[2] # "-"
    /\ <<"=">> \notin {<<arg[i]>> : i \in DOMAIN arg}
    /\ \A i \in 2..Len(arg) : <<"-", arg[i]>> \in FlagNames(f)

ExpandAt(f, a) ==
    LET tags == TagsAt(f, a)
    IN  Flatten([i \in DOMAIN a |->
                    IF tags[i].tag = "plain" /\ Combined(f, a[i])
                      THEN [j \in 1..(Len(a[i]) - 1) |-> <<"-", a[i][j + 1]>>]
                      ELSE <<a[i]>>])

\* ------------------------------------------------------------------------
\* Properties
\* ------------------------------------------------------------------------

\* C1: a single-dash argument whose characters are all registered
\* single-character flags stands for those flags in order, so that -zcf a.tgz
\* parses as -z -c -f a.tgz does: the Parse performed ended as the Parse of
\* the arguments with every such argument written out flag by flag ends, and
\* so does the resolution of every command of the tree.
C1_CombinedShortFlags ==
    Parsed =>
      /\ [err |-> err, mem |-> mem, last |-> last]
            \in LevelResults(Root, pre, env, ExpandAt(Root, args))
      /\ \A f \in Levels :
            ExpandAt(f, args) # args =>
              LevelResults(f, pre, env, args) = LevelResults(f, pre, env, ExpandAt(f, args))

\* -zcf a was parsed: both booleans are set and -f received a
C1_Witness ==
    /\ phase = "parsed" /\ err = "NoError"
    /\ args = << <<"-","z","c","f">>, <<"a">> >>
    /\ mem["GZ"] /\ mem["Create"] /\ mem["File"] = <<"a">>

\* the position of the child name that opens a run the level f never
\* closes: every argument from it on belongs to the child (0: no such run)
RunStart(f, a) ==
    LET tags == TagsAt(f, a)
        opens == {i \in DOMAIN a : /\ \A j \in 1..(i - 1) : tags[j].tag # "child"
                                   /\ \A j \in i..Len(a) : tags[j].tag = "child"}
    IN  IF opens = {} THEN 0 ELSE CHOOSE i \in opens : TRUE

\* what C2 says of the outcome o of resolving the level f on a from m
ChildRunOutcome(f, m, e, a, o) ==
    LET i == RunStart(f, a)
        c == ChildNamed(f, a[i])
        p == CHOOSE r \in LevelResults(f, m, e, Take(a, i - 1)) : TRUE
        enabled == [p.mem EXCEPT ![sets[c].self.Ptr] = TRUE]
    IN  i > 0 =>
          IF p.err # "NoError" THEN o.err = p.err /\ o.mem = p.mem
          ELSE /\ \A q \in OwnSinks(f) : o.mem[q] = p.mem[q]
               /\ o.err = "NoError" => o.mem[sets[c].self.Ptr] = TRUE
               /\ \E r \in LevelResults(c, enabled, e, Drop(a, i)) :
                     r.err = o.err /\ r.mem = o.mem

CleanBefore(f, m, T, j) ==
    LET st == After(f, m, T, j - 1) IN st.err = "NoError" /\ st.flag = 0

\* what C3 says of the outcomes outs of resolving the level f on a from m
DuplicationRule(f, m, a, outs) ==
    LET T == LevelTokens(f, a)
        again == {j \in DOMAIN T : /\ TokenFlag(f, T[j]) # 0
                                   /\ \E i \in 1..(j - 1) : TokenFlag(f, T[i]) = TokenFlag(f, T[j])}
        slice(j) == IsSliceSink(sets[f].flags[TokenFlag(f, T[j])].Ptr)
    IN  /\ \A j \in again : ~slice(j) =>
              \A o \in outs :
                 /\ o.err # "NoError"
                 /\ CleanBefore(f, m, T, j) => o.err = "DuplicateFlagParsed"
        /\ \A j \in again : slice(j) /\ CleanBefore(f, m, T, j) =>
              After(f, m, T, j).err = "NoError"
        /\ \A o \in outs : o.err = "NoError" =>
              \A g \in DOMAIN sets[f].flags :
                 LET q == sets[f].flags[g].Ptr
                 IN  IsSliceSink(q) /\ Supplied(f, T, g) # <<>> =>
                        o.mem[q] = m[q] \o Supplied(f, T, g)

\* C3: a flag whose sink is no sequence makes Parse fail when it is supplied
\* a second time, with DuplicateFlag unless an earlier argument already
\* failed; a flag whose sink is a sequence may come again and receives its
\* values in the order of the command line.
C3_DuplicationRule ==
    Parsed =>
      /\ DuplicationRule(Root, pre, args, {[err |-> err, mem |-> mem]})
      /\ \A f \in Levels : DuplicationRule(f, pre, args, LevelResults(f, pre, env, args))

\* -f a -f was parsed: the second -f is the duplicate
C3_Witness ==
    /\ phase = "parsed" /\ err = "DuplicateFlagParsed"
    /\ args = << <<"-","f">>, <<"a">>, <<"-","f">> >>

\* the j-th token of T names the flag g of the level f without a value
\* attached, and after tokens that left the resolver clean
OpensFlag(f, m, T, j, g) ==
    /\ TokenFlag(f, T[j]) = g /\ g # 0 /\ ~T[j].AttachValid
    /\ CleanBefore(f, m, T, j)

\* the k-th token of T is a value the resolver of the level f takes for a
\* non-flag value: it rejects it, or binds it to a positional flag or to the
\* overflow sink
NonFlagValue(f, m, T, k) ==
    LET b == After(f, m, T, k - 1)
        n == After(f, m, T, k)
        v == T[k].Value
        set == sets[f]
    IN  b.err = "NoError" =>
          \/ n.err = "NonFlagValue"
          \/ /\ n.err = "NoError"
             /\ \/ /\ set.self.ArgsPtr # ""
                   /\ n.mem = [b.mem EXCEPT ![set.self.ArgsPtr] = Append(@, v)]
                \/ \E i \in DOMAIN set.flags :
                      /\ set.flags[i].Names = flagNamePositional
                      /\ n.mem = [b.mem EXCEPT ![set.flags[i].Ptr] = v]

\* the positions after j up to which T has value tokens only
ValueRun(T, j) == {k \in (j + 1)..Len(T) : \A i \in (j + 1)..k : T[i].Type = argumentValue}

\* what C4 says of the level f resolving a from m: the flag receives the
\* three values that follow it
SliceKeepsOpen(f, m, a) ==
    LET T == LevelTokens(f, a)
    IN  \A j \in DOMAIN T : \A g \in DOMAIN sets[f].flags :
           LET q == sets[f].flags[g].Ptr
           IN  /\ OpensFlag(f, m, T, j, g) /\ IsSliceSink(q) /\ ~IsBoolSink(q)
               /\ j + 3 \in ValueRun(T, j)
               => LET st == After(f, m, T, j + 3)
                  IN  /\ st.err = "NoError"
                      /\ st.mem[q] = After(f, m, T, j - 1).mem[q]
                                       \o <<T[j + 1].Value, T[j + 2].Value, T[j + 3].Value>>

\* C4 as the specification states it: a flag whose sink is a sequence stays
\* open over the value tokens that follow it, three values in a row are all
\* bound to the flag, in order.
C4_SliceStaysOpen == Parsed => \A f \in Levels : SliceKeepsOpen(f, pre, args)

\* what the code does: the first value closes the flag
SliceClosesAfterOneValue(f, m, a) ==
    LET T == LevelTokens(f, a)
    IN  \A j \in DOMAIN T : \A g \in DOMAIN sets[f].flags :
           LET q == sets[f].flags[g].Ptr
               one == After(f, m, T, j + 1)
           IN  /\ OpensFlag(f, m, T, j, g) /\ IsSliceSink(q) /\ ~IsBoolSink(q)
               /\ j + 1 \in ValueRun(T, j)
               /\ one.err = "NoError"
               => /\ one.mem[q] = After(f, m, T, j - 1).mem[q] \o <<T[j + 1].Value>>
                  /\ one.flag = 0
                  /\ \A k \in ValueRun(T, j) \ {j + 1} :
                        /\ After(f, m, T, k).mem[q] = one.mem[q]
                        /\ NonFlagValue(f, m, T, k)

\* C4, amended: a flag whose sink is a sequence of non-booleans is closed by
\* the first value that follows it; that value alone is appended to the
\* sequence, and every further value of the run is a non-flag value, bound
\* to a positional flag or the overflow sink or rejected.
C4_SliceClosesAfterOneValue ==
    Parsed =>
      /\ \A f \in Levels : SliceClosesAfterOneValue(f, pre, args)
      /\ LET T == LevelTokens(Root, args)
         IN  err = "NoError" =>
               \A g \in DOMAIN sets[Root].flags :
                  LET q == sets[Root].flags[g].Ptr
                  IN  IsSliceSink(q) /\ Supplied(Root, T, g) # <<>> =>
                         Len(mem[q]) = Len(pre[q]) + Cardinality({j \in DOMAIN T : TokenFlag(Root, T[j]) = g})

\* -I a u a was parsed: -I received a alone, u and a are overflow arguments
C4_Witness ==
    /\ phase = "parsed" /\ err = "NoError"
    /\ args = << <<"-","I">>, <<"a">>, <<"u">>, <<"a">> >>
    /\ mem["Include"] = << <<"a">> >>
    /\ mem["Args"] = << <<"u">>, <<"a">> >>

\* what C5 says of the level f resolving a from m
BoolTakesNoValue(f, m, a) ==
    LET T == LevelTokens(f, a)
    IN  \A j \in DOMAIN T : \A g \in DOMAIN sets[f].flags :
           LET q == sets[f].flags[g].Ptr
               st == After(f, m, T, j)
           IN  /\ OpensFlag(f, m, T, j, g) /\ PtrType[q] = "bool"
               /\ st.err = "NoError"
               => /\ st.mem[q] = TRUE /\ st.flag = 0
                  /\ j + 1 \in ValueRun(T, j) =>
                        /\ After(f, m, T, j + 1).mem[q] = TRUE
                        /\ NonFlagValue(f, m, T, j + 1)

\* C5: a boolean flag supplied without an attached value is true at once and
\* takes no value: a value token after it, as false in -z false, is a
\* non-flag value and the sink stays true.
C5_BoolTakesNoValue ==
    Parsed =>
      /\ \A f \in Levels : BoolTakesNoValue(f, pre, args)
      /\ LET T == LevelTokens(Root, args)
         IN  err = "NoError" =>
               \A j \in DOMAIN T : \A g \in DOMAIN sets[Root].flags :
                  TokenFlag(Root, T[j]) = g /\ ~T[j].AttachValid
                    /\ PtrType[sets[Root].flags[g].Ptr] = "bool"
                    => mem[sets[Root].flags[g].Ptr] = TRUE

\* -z false was parsed: GZ is true and false is an overflow argument
C5_Witness ==
    /\ phase = "parsed" /\ err = "NoError"
    /\ args = << <<"-","z">>, <<"f","a","l","s","e">> >>
    /\ mem["GZ"] /\ mem["Args"] = << <<"f","a","l","s","e">> >>

\* the value tokens of T no flag of the level f takes: those that do not
\* follow a flag waiting for its value
FreeValues(f, T) ==
    LET waits(i) == /\ TokenFlag(f, T[i]) # 0 /\ ~T[i].AttachValid
                    /\ ~IsBoolSink(sets[f].flags[TokenFlag(f, T[i])].Ptr)
        free(i) == T[i].Type = argumentValue /\ ~(i > 1 /\ waits(i - 1))
    IN  Flatten([i \in DOMAIN T |-> IF free(i) THEN <<T[i].Value>> ELSE <<>>])

\* the texts the command line supplies to the flag g of the level f: those
\* of its tokens, and for a positional flag the free value of its rank
ExplicitTexts(f, T, g) ==
    LET flags == sets[f].flags
        rank  == Cardinality({i \in 1..g : flags[i].Names = flagNamePositional})
        fv    == FreeValues(f, T)
    IN  IF flags[g].Names = flagNamePositional
          THEN (IF rank <= Len(fv) THEN <<fv[rank]>> ELSE <<>>)
          ELSE Supplied(f, T, g)

\* the texts of the environment variable of a flag, when it is set and not
\* empty: split at the flag's separator for a sequence
EnvTexts(e, flag) ==
    IF flag.Env = <<>> \/ flag.Env \notin DOMAIN e THEN <<>>
    ELSE IF e[flag.Env] = <<>> THEN <<>>
    ELSE IF IsSliceSink(flag.Ptr)
      THEN LET secs == Split(e[flag.Env], flag.ValSep)
           IN  [i \in DOMAIN secs |-> TrimSpace(secs[i])]
    ELSE <<e[flag.Env]>>

\* the texts of the default of a flag
DefaultTexts(flag) ==
    IF ~flag.Default.has THEN <<>>
    ELSE IF flag.Default.slice
      THEN [i \in DOMAIN flag.Default.v |-> Sprint(flag.Default.kind, flag.Default.v[i])]
    ELSE <<Sprint(flag.Default.kind, flag.Default.v)>>

\* the texts a flag is to receive: the explicit ones, else those of the
\* environment, else those of the default, else none
ChosenTexts(f, T, e, g) ==
    IF ExplicitTexts(f, T, g) # <<>> THEN ExplicitTexts(f, T, g)
    ELSE IF EnvTexts(e, sets[f].flags[g]) # <<>> THEN EnvTexts(e, sets[f].flags[g])
    ELSE DefaultTexts(sets[f].flags[g])

\* the sink of the flag g of the level f once the chosen texts are applied
\* to the memory m
ExpectedSink(f, m, T, e, g) ==
    applyVals(m, sets[f].flags[g], ChosenTexts(f, T, e, g)).mem[sets[f].flags[g].Ptr]

\* what C6 says of the outcome o of resolving the level f on a from m
FallbackHolds(f, m, e, a, o) ==
    o.err = "NoError" =>
      \A g \in DOMAIN sets[f].flags :
         o.mem[sets[f].flags[g].Ptr] = ExpectedSink(f, m, LevelTokens(f, a), e, g)

\* C6: after a successful resolution of a command each of its flags holds
\* the value supplied explicitly, else the value of its environment variable
\* when that is set and not empty, else its default, else the value it had,
\* the zero value.
C6_FallbackPrecedence ==
    Parsed =>
      /\ FallbackHolds(Root, pre, env, args, [err |-> err, mem |-> mem])
      /\ \A f \in Levels : \A o \in LevelResults(f, pre, env, args) :
            FallbackHolds(f, pre, env, args, o)

\* -I u was parsed with the variable of -f set to e: -I has the explicit
\* value, -f the value of the environment and not its default d, -n its
\* default and -z the zero value
C6_Witness ==
    /\ phase = "parsed" /\ err = "NoError"
    /\ args = << <<"-","I">>, <<"u">> >>
    /\ env = [n \in {<<"F">>} |-> <<"e">>]
    /\ mem["Include"] = << <<"u">> >> /\ mem["File"] = <<"e">>
    /\ mem["Level"] = 2 /\ mem["GZ"] = FALSE

RECURSIVE RawAt(_)
\* The raw arguments the command f is resolved on in the Parse performed,
\* and whether the Parse reached it: the root is reached with the arguments
\* of Parse, a child when its parent is reached and names it, with the
\* arguments of its runs.
RawAt(f) ==
    IF f = Root THEN [reached |-> TRUE, raw |-> args]
    ELSE LET p    == RawAt(Parent(f))
             tags == TagsAt(Parent(f), p.raw)
             mine == Flatten([i \in DOMAIN p.raw |->
                        IF tags[i].tag = "child" /\ tags[i].child \in NamesOf(sets[f].self)
                          THEN <<p.raw[i]>> ELSE <<>>])
         IN  IF p.reached /\ mine # <<>> THEN [reached |-> TRUE, raw |-> Tail(mine)]
             ELSE [reached |-> FALSE, raw |-> <<>>]

\* the flag g of the command f holds what the fallback order gives it
FlagResolved(f, g) ==
    mem[sets[f].flags[g].Ptr] = ExpectedSink(f, pre, LevelTokens(f, RawAt(f).raw), env, g)

\* C7 as the specification states it: after a successful Parse every flag of
\* the whole tree, the flags of the children the arguments do not name
\* included, holds its explicit value, else that of its environment
\* variable, else its default.
C7_EveryFlagResolved ==
    Parsed /\ err = "NoError" =>
      \A f \in Levels : \A g \in DOMAIN sets[f].flags : FlagResolved(f, g)

\* C7, amended: after a successful Parse every flag of the root and of each
\* command the arguments name along the way holds its explicit value, else
\* that of its environment variable, else its default; the sinks of a
\* command the arguments do not reach are as they were before the Parse,
\* its defaults are not applied.
C7_ReachedCommandsResolved ==
    Parsed /\ err = "NoError" =>
      \A f \in Levels :
         IF RawAt(f).reached
           THEN \A g \in DOMAIN sets[f].flags : FlagResolved(f, g)
           ELSE \A q \in OwnSinks(f) \cup {sets[f].self.Ptr} : mem[q] = pre[q]

\* b was parsed: the child b has the default of -o; the command m, which no
\* argument names, has not the default of -t
C7_Witness ==
    /\ phase = "parsed" /\ err = "NoError"
    /\ args = << <<"b">> >>
    /\ mem["BuildEnable"] /\ mem["Output"] = <<"o">>
    /\ ~mem["ModEnable"] /\ ~mem["Tidy"]

\* the command of the model as it is constructed and registered, before any
\* Parse, with every sink at its zero value
FreshOutcomes(e, a) == ParseOutcomes(TarModel, ZeroMem, e, <<ProgName>> \o a)

\* C8: a Parse performed after a Reset ends, in its error, its sinks and the
\* command it activates, as the Parse of the same arguments on the freshly
\* registered command ends, whatever was parsed before the Reset.
C8_ResetIndependence ==
    reused /\ Parsed =>
      \E o \in FreshOutcomes(env, args) : o.err = err /\ o.mem = mem /\ o.last = last

\* after a Parse and a Reset, a was parsed: the overflow sink holds a alone
C8_Witness ==
    /\ reused /\ phase = "parsed" /\ err = "NoError"
    /\ args = << <<"a">> >>
    /\ mem["Args"] = << <<"a">> >>

\* the zero value of a sink: false, the number 0, the empty text, the empty
\* sequence
ZeroValue(q) ==
    CASE PtrType[q] = "bool" -> FALSE
      [] PtrType[q] \in {"uint8", "int"} -> 0
      [] OTHER -> <<>>

\* C9: after Reset every sink of the tree, at every depth, holds its zero
\* value; every sequence, the overflow sinks included, is empty.
C9_ResetZeroes ==
    reused /\ phase = "ready" => \A q \in TreeSinks : mem[q] = ZeroValue(q)

\* a Reset was performed after a Parse
C9_Witness ==
    /\ reused /\ phase = "ready"
    /\ \A q \in {"Args", "Packages", "Tidy", "ModEnable"} : mem[q] = ZeroValue(q)

\* the names of the command f: those of its flags and of its children
NamesAt(f) == FlagNames(f) \cup SubsetNames(f)

\* how many flags and children of the command f answer to the name n
Owners(f, n) ==
    Cardinality({i \in DOMAIN sets[f].flags : n \in NamesOf(sets[f].flags[i])})
      + Cardinality({c \in Children(f) : n \in NamesOf(sets[c].self)})

RECURSIVE Ancestors(_)
\* the commands above f
Ancestors(f) == IF f = Root THEN {} ELSE {Parent(f)} \cup Ancestors(Parent(f))

\* no name of a command is used twice in it, or in a command above it
NamesUnique ==
    \A f \in Levels :
       /\ \A n \in NamesAt(f) : Owners(f, n) = 1
       /\ \A a \in Ancestors(f) : NamesAt(f) \cap NamesAt(a) = {}

\* C10: after any sequence of registrations no name of a flag or child of a
\* command is a name of the same command or of a command above or below it,
\* and a registration that fails as a duplicate leaves the tree as it was.
C10_NamesUnique ==
    /\ NamesUnique
    /\ err = "DuplicateFlagRegister" => sets = old

\* the i-th token of T is a value that comes with no flag open: it does
\* not follow a flag of the level f that waits for its value
IsFree(f, T, i) ==
    /\ T[i].Type = argumentValue
    /\ ~(/\ i > 1 /\ TokenFlag(f, T[i - 1]) # 0 /\ ~T[i - 1].AttachValid
          /\ ~IsBoolSink(sets[f].flags[TokenFlag(f, T[i - 1])].Ptr))

\* how many such values come before the k-th token
FreeBefore(f, T, k) == Cardinality({i \in 1..(k - 1) : IsFree(f, T, i)})

\* the positional flags of the level f, and the one declared r-th
IsPositional(f, g) == sets[f].flags[g].Names = flagNamePositional

PositionalCount(f) == Cardinality({g \in DOMAIN sets[f].flags : IsPositional(f, g)})

PositionalOfRank(f, r) ==
    CHOOSE g \in DOMAIN sets[f].flags :
       IsPositional(f, g) /\ Cardinality({i \in 1..g : IsPositional(f, i)}) = r

\* a flag token comes after the k-th token
FlagFollows(T, k) == \E j \in (k + 1)..Len(T) : T[j].Type = argumentFlag

\* the level f takes its non-flag values anywhere, or no flag token
\* follows the k-th token
MayStand(f, T, k) == sets[f].self.ArgsAnywhere \/ ~FlagFollows(T, k)

\* what C11 says of the level f resolving the tokens T from m, token by
\* token: the resolver binds the value or rejects it as a non-flag value,
\* and it binds it when the value may stand where it is
BoundInOrder(f, m, T) ==
    \A k \in DOMAIN T :
       LET b    == After(f, m, T, k - 1)
           n    == After(f, m, T, k)
           r    == FreeBefore(f, T, k)
           over == sets[f].self.ArgsPtr
       IN  IsFree(f, T, k) /\ b.err = "NoError" =>
             IF r < PositionalCount(f)
               THEN /\ n.err \in {"NoError", "NonFlagValue"}
                    /\ MayStand(f, T, k) => n.err = "NoError"
                    /\ n.err = "NoError" =>
                          n.mem = [b.mem EXCEPT
                                     ![sets[f].flags[PositionalOfRank(f, r + 1)].Ptr] = T[k].Value]
             ELSE IF over # ""
               THEN /\ n.err \in {"NoError", "NonFlagValue"}
                    /\ MayStand(f, T, k) => n.err = "NoError"
                    /\ n.err = "NoError" =>
                          n.mem = [b.mem EXCEPT ![over] = Append(@, T[k].Value)]
             ELSE n.err = "NonFlagValue"

\* what C11 says of the outcome o of resolving the level f on a from m
OrderOutcome(f, m, a, o) ==
    LET T  == LevelTokens(f, a)
        fv == FreeValues(f, T)
        P  == PositionalCount(f)
    IN  /\ o.err = "NoError" =>
              /\ \A r \in 1..P : r <= Len(fv) =>
                    o.mem[sets[f].flags[PositionalOfRank(f, r)].Ptr] = fv[r]
              /\ Len(fv) > P =>
                    /\ sets[f].self.ArgsPtr # ""
                    /\ o.mem[sets[f].self.ArgsPtr] = m[sets[f].self.ArgsPtr] \o Drop(fv, P)
        /\ (\E k \in DOMAIN T :
               /\ IsFree(f, T, k) /\ After(f, m, T, k - 1).err = "NoError"
               /\ FreeBefore(f, T, k) >= P /\ sets[f].self.ArgsPtr = "")
             => o.err = "NonFlagValue"

OverflowAloneTrails(f, m, T) ==
    \A k \in DOMAIN T :
       LET b == After(f, m, T, k - 1)
           n == After(f, m, T, k)
           r == FreeBefore(f, T, k)
       IN  IsFree(f, T, k) /\ b.err = "NoError" =>
             IF r < PositionalCount(f)
               THEN /\ n.err = "NoError"
                    /\ n.mem[sets[f].flags[PositionalOfRank(f, r + 1)].Ptr] = T[k].Value
             ELSE sets[f].self.ArgsPtr # "" =>
                    n.err = IF MayStand(f, T, k) THEN "NoError" ELSE "NonFlagValue"

\* C12 as the specification states it: with the option anywhere off a flag
\* token that follows makes a non-flag value unexpected only when the value
\* would go to the overflow sink; a value for which a positional flag is
\* left is bound to it even when flag tokens follow.
C12_OverflowAloneTrails ==
    Parsed => \A f \in Levels : OverflowAloneTrails(f, pre, LevelTokens(f, args))

\* what the code does: a flag token that follows rejects every non-flag
\* value of a level that does not take them anywhere
EveryValueTrails(f, m, T) ==
    \A k \in DOMAIN T :
       LET b == After(f, m, T, k - 1)
           n == After(f, m, T, k)
           r == FreeBefore(f, T, k)
       IN  IsFree(f, T, k) /\ b.err = "NoError" =>
             IF ~MayStand(f, T, k)
               THEN n.err = "NonFlagValue" /\ n.mem = b.mem
             ELSE (r < PositionalCount(f) \/ sets[f].self.ArgsPtr # "") => n.err = "NoError"

\* the outcome o of resolving the level f on a from m fails when a value
\* may not stand where it is
TrailingOutcome(f, m, a, o) ==
    LET T == LevelTokens(f, a)
    IN  (\E k \in DOMAIN T : /\ IsFree(f, T, k) /\ After(f, m, T, k - 1).err = "NoError"
                              /\ ~MayStand(f, T, k))
          => o.err = "NonFlagValue"

\* C12, amended: with the option anywhere off every non-flag value that a
\* flag token of the same level follows is rejected as unexpected, the value
\* for which a positional flag is left as well as the value for the overflow
\* sink, and nothing is bound; with anywhere on, or when no flag token
\* follows, the value is accepted when a positional flag is left or the
\* command has an overflow sink.
C12_EveryValueTrails ==
    Parsed =>
      /\ TrailingOutcome(Root, pre, args, [err |-> err, mem |-> mem])
      /\ \A f \in Levels :
            /\ EveryValueTrails(f, pre, LevelTokens(f, args))
            /\ \A o \in LevelResults(f, pre, env, args) : TrailingOutcome(f, pre, args, o)

\* a -f was parsed: a was rejected although the first positional flag was
\* free, and the source is not bound
C12_Witness ==
    /\ phase = "parsed" /\ err = "NonFlagValue"
    /\ args = << <<"a">>, <<"-","f">> >>
    /\ mem["Source"] = <<>>

\* the j-th token of T opens the flag g of the level f, which is accepted,
\* and no value follows it: the next token is a flag, or it is the last
LeftWithoutValue(f, m, T, j, g) ==
    /\ OpensFlag(f, m, T, j, g)
    /\ After(f, m, T, j).err = "NoError"
    /\ (j = Len(T) \/ T[j + 1].Type = argumentFlag)

\* the error and the sinks after the level f resolved its own tokens T
\* from m, its children apart
OwnResult(f, m, e, T) == resolveFlags(m, e, sets[f], T)

\* what C13 says of the outcomes outs of resolving the level f on a from m
\* under e; a child may still fail for a flag of its own
ValueRequired(f, m, e, a, outs) ==
    LET T == LevelTokens(f, a)
    IN  \A j \in DOMAIN T : \A g \in DOMAIN sets[f].flags :
           LeftWithoutValue(f, m, T, j, g) =>
             IF IsBoolSink(sets[f].flags[g].Ptr)
               THEN /\ After(f, m, T, j).flag = 0
                    /\ j < Len(T) => After(f, m, T, j + 1).err # "FlagValueNotProvided"
                    /\ j = Len(T) => OwnResult(f, m, e, T).err # "FlagValueNotProvided"
               ELSE /\ j < Len(T) => After(f, m, T, j + 1).err = "FlagValueNotProvided"
                    /\ \A o \in outs :
                          /\ o.err = "FlagValueNotProvided"
                          /\ o.mem[sets[f].flags[g].Ptr] = After(f, m, T, j - 1).mem[sets[f].flags[g].Ptr]

\* C13: a flag whose sink is no boolean, supplied without an attached value
\* and followed by a flag token or by the end of the tokens of its level,
\* makes Parse fail with the error of the missing value, its sink being left
\* as it was; a boolean flag in that place never raises this error.
C13_ValueRequired ==
    Parsed =>
      /\ ValueRequired(Root, pre, env, args, {[err |-> err, mem |-> mem]})
      /\ \A f \in Levels : ValueRequired(f, pre, env, args, LevelResults(f, pre, env, args))

\* -z -f was parsed: -z is accepted without a value, -f is not
C13_Witness ==
    /\ phase = "parsed" /\ err = "FlagValueNotProvided"
    /\ args = << <<"-","z">>, <<"-","f">> >>
    /\ mem["GZ"] /\ mem["File"] = <<>>

\* the argument is a name of a flag of the level f, an '=' that is neither
\* its first nor its last character, and a value: the position of the '='
\* (0: the argument has not this form)
AttachedForm(f, arg) ==
    LET eqs == {i \in 2..(Len(arg) - 1) : arg[i] = "=" /\ Take(arg, i - 1) \in FlagNames(f)}
    IN  IF eqs = {} THEN 0 ELSE CHOOSE i \in eqs : \A j \in eqs : i <= j

\* what C14 says of the scanner of the level f on a: the argument name=value
\* is the one token of the flag name with the value attached
SplitAtEquals(f, a) ==
    \A i \in DOMAIN a :
       LET p == AttachedForm(f, a[i])
       IN  TagsAt(f, a)[i].tag = "plain" /\ p > 0 =>
             LevelTokens(f, a) =
               LevelTokens(f, Take(a, i - 1))
                 \o << [Type |-> argumentFlag, Value |-> Take(a[i], p - 1),
                        Attached |-> Drop(a[i], p), AttachValid |-> TRUE] >>
                 \o LevelTokens(f, Drop(a, i))

\* what C14 says of the resolver of the level f on the tokens T from m
AttachedCloses(f, m, T) ==
    \A j \in DOMAIN T : \A g \in DOMAIN sets[f].flags :
       LET q  == sets[f].flags[g].Ptr
           b  == After(f, m, T, j - 1)
           n  == After(f, m, T, j)
       IN  /\ TokenFlag(f, T[j]) = g /\ T[j].AttachValid
           /\ CleanBefore(f, m, T, j) /\ n.err = "NoError"
           => /\ n.mem = applyVals(b.mem, sets[f].flags[g], <<T[j].Attached>>).mem
              /\ PtrType[q] = "string" => n.mem[q] = T[j].Attached
              /\ PtrType[q] = "[]string" => n.mem[q] = Append(b.mem[q], T[j].Attached)
              /\ PtrType[q] = "bool" /\ T[j].Attached = <<"f","a","l","s","e">> => n.mem[q] = FALSE
              /\ n.flag = 0
              /\ j + 1 \in ValueRun(T, j) =>
                    /\ After(f, m, T, j + 1).mem[q] = n.mem[q]
                    /\ NonFlagValue(f, m, T, j + 1)

\* C14: a flag argument name=value, the '=' being neither its first nor its
\* last character, is the flag name with the value attached; the attached
\* value is applied at once and the flag is closed, for a boolean flag too
\* (-z=false leaves the sink false), so that a value token after it is a
\* non-flag value and never the flag's value.
C14_AttachedValue ==
    Parsed =>
      \A f \in Levels :
         /\ SplitAtEquals(f, args)
         /\ AttachedCloses(f, pre, LevelTokens(f, args))

\* -z=false -f=a a was parsed: GZ is false, File is a and the last a is an
\* overflow argument
C14_Witness ==
    /\ phase = "parsed" /\ err = "NoError"
    /\ args = << <<"-","z","=","f","a","l","s","e">>, <<"-","f","=","a">>, <<"a">> >>
    /\ ~mem["GZ"] /\ mem["File"] = <<"a">> /\ mem["Args"] = << <<"a">> >>

\* a '-' of a that the scanner of the level f reads as itself: it is in no
\* run of a child and no marker forces it
OwnDash(f, a, i) == a[i] = <<"-">> /\ TagsAt(f, a)[i].tag \in {"marker", "plain"}

\* what C15 says of the scanner of the level f on a: a '-' with an argument
\* after it gives no token and makes that argument, whole, one flag token,
\* and the arguments after that one are scanned as if no marker stood before
\* them; a '-' at the end is a value
DashForcesFlag(f, a) ==
    \A i \in DOMAIN a :
       OwnDash(f, a, i) =>
         IF i < Len(a)
           THEN LevelTokens(f, a) =
                  LevelTokens(f, Take(a, i - 1))
                    \o << [Type |-> argumentFlag, Value |-> a[i + 1],
                           Attached |-> <<>>, AttachValid |-> FALSE] >>
                    \o LevelTokens(f, Drop(a, i + 1))
           ELSE LevelTokens(f, a) =
                  LevelTokens(f, Take(a, i - 1))
                    \o << [Type |-> argumentValue, Value |-> a[i],
                           Attached |-> <<>>, AttachValid |-> FALSE] >>

\* what C15 says of the Parse of a that ended without error in m: the
\* argument after a '-' of the root names a flag of the root, whose boolean
\* sink is true, and a '-' at the end is the last value bound: the value of
\* the flag open before it or the last overflow argument
DashOutcome(a, e, m) ==
    \A i \in DOMAIN a :
       OwnDash(Root, a, i) /\ e = "NoError" =>
         IF i < Len(a)
           THEN /\ a[i + 1] \in FlagNames(Root)
                /\ LET q == sets[Root].flags[FlagByName(Root, a[i + 1])].Ptr
                   IN  PtrType[q] = "bool" => m[q] = TRUE
           ELSE \E q \in OwnSinks(Root) \cup {sets[Root].self.ArgsPtr} :
                   \/ PtrType[q] = "string" /\ m[q] = a[i]
                   \/ PtrType[q] = "[]string" /\ m[q] # <<>> /\ m[q][Len(m[q])] = a[i]

\* C15: a standalone '-' that is not the last argument makes the argument
\* right after it, and only that one, a flag token, even without a leading
\* dash, and is itself not emitted; a standalone '-' that is the last
\* argument is a plain value.  So tar - -z sets the boolean flag -z and
\* tar -- -file - ends with the value '-'.
C15_ForcedFlagMarker ==
    Parsed =>
      /\ \A f \in Levels : DashForcesFlag(f, args)
      /\ DashOutcome(args, err, mem)

\* - -z was parsed: GZ is true and nothing went to the overflow arguments
C15_Witness ==
    /\ phase = "parsed" /\ err = "NoError"
    /\ args = << <<"-">>, <<"-","z">> >>
    /\ mem["GZ"] /\ mem["Args"] = <<>>

\* the place in the tokens of the level f of the token the argument a[i]
\* starts with
TokenIndex(f, a, i) == Len(LevelTokens(f, Take(a, i - 1))) + 1

\* a '-' of the root that a name of a flag of the root follows
DashBeforeFlag(a, i) ==
    /\ OwnDash(Root, a, i) /\ i < Len(a)
    /\ a[i + 1] \in FlagNames(Root)

\* C16 as stated: in - -output a.out with -output registered, the '-' makes
\* -output a plain value and not a flag.
C16_DashMakesValue ==
    Parsed =>
      \A i \in DOMAIN args :
         DashBeforeFlag(args, i) =>
           LevelTokens(Root, Take(args, i + 1))[TokenIndex(Root, args, i)].Type = argumentValue

\* what the amended C16 says of the scanner and of the Parse of a that ended
\* with e in m
DashFlagThenValue(a, e, m) ==
    \A i \in DOMAIN a :
       DashBeforeFlag(a, i) =>
         LET T == LevelTokens(Root, a)
             k == TokenIndex(Root, a, i)
             q == sets[Root].flags[FlagByName(Root, a[i + 1])].Ptr
         IN  /\ T[k] = [Type |-> argumentFlag, Value |-> a[i + 1],
                        Attached |-> <<>>, AttachValid |-> FALSE]
             /\ i + 2 <= Len(a) /\ TagsAt(Root, a)[i + 2].tag = "plain" /\ Head(a[i + 2]) # "-"
                => /\ T[k + 1] = [Type |-> argumentValue, Value |-> a[i + 2],
                                  Attached |-> <<>>, AttachValid |-> FALSE]
                   /\ e = "NoError" /\ PtrType[q] = "string" => m[q] = a[i + 2]
                   /\ e = "NoError" /\ PtrType[q] = "bool"
                        => m[q] = TRUE /\ a[i + 2] \in Range(m[sets[Root].self.ArgsPtr])

\* C16 (amended): in - -output a.out with -output registered, the '-' makes
\* -output a flag token, the '-' itself gives no token, and a.out is the
\* plain value after that token: the value of -output when -output takes
\* one, a non-flag value when -output is a boolean flag.
C16_DashFlagThenValue == Parsed => DashFlagThenValue(args, err, mem)

\* - -f a was parsed: File is a and nothing went to the overflow arguments
C16_Witness ==
    /\ phase = "parsed" /\ err = "NoError"
    /\ args = << <<"-">>, <<"-","f">>, <<"a">> >>
    /\ mem["File"] = <<"a">> /\ mem["Args"] = <<>>

\* a '--' of a that the scanner of the level f reads as itself
OwnDashes(f, a, i) == a[i] = <<"-", "-">> /\ TagsAt(f, a)[i].tag \in {"marker", "plain"}

\* the arguments a[i..] as values, each whole
AsValues(a, i) ==
    [j \in 1..(Len(a) - i + 1) |->
        [Type |-> argumentValue, Value |-> a[i + j - 1], Attached |-> <<>>, AttachValid |-> FALSE]]

DashesForceNext(f, a) ==
    \A i \in DOMAIN a :
       OwnDashes(f, a, i) =>
         IF i < Len(a)
           THEN LevelTokens(f, a) =
                  LevelTokens(f, Take(a, i - 1)) \o AsValues(Take(a, i + 1), i + 1)
                    \o LevelTokens(f, Drop(a, i + 1))
           ELSE LevelTokens(f, a) = LevelTokens(f, Take(a, i - 1)) \o AsValues(a, i)

\* what the amended C17 says of the Parse of a that ended without error in
\* m: the argument after a '--' of the root is bound whole, as the value of
\* the flag open before it or as an overflow argument
DashesOutcome(a, e, m) ==
    \A i \in DOMAIN a :
       OwnDashes(Root, a, i) /\ i < Len(a) /\ e = "NoError" =>
         \E q \in OwnSinks(Root) \cup {sets[Root].self.ArgsPtr} :
            \/ PtrType[q] = "string" /\ m[q] = a[i + 1]
            \/ PtrType[q] = "[]string" /\ a[i + 1] \in Range(m[q])

HintedPair(f, a, i) ==
    /\ i + 4 <= Len(a)
    /\ TagsAt(f, a)[i].tag = "plain" /\ a[i] \in FlagNames(f)
    /\ IsSliceSink(sets[f].flags[FlagByName(f, a[i])].Ptr)
    /\ ~IsBoolSink(sets[f].flags[FlagByName(f, a[i])].Ptr)
    /\ OwnDashes(f, a, i + 1) /\ a[i + 3] = <<"-", "-">>

HintedValues(f, m, a) ==
    \A i \in DOMAIN a :
       HintedPair(f, a, i) =>
         LET T == LevelTokens(f, a)
             k == TokenIndex(f, a, i)
             q == sets[f].flags[FlagByName(f, a[i])].Ptr
             b == After(f, m, T, k - 1)
             one == After(f, m, T, k + 1)
         IN  /\ SubSeq(T, k, k + 2) =
                  <<[Type |-> argumentFlag, Value |-> a[i], Attached |-> <<>>, AttachValid |-> FALSE]>>
                    \o AsValues(<<a[i + 2], a[i + 4]>>, 1)
             /\ T = LevelTokens(f, Take(a, i - 1)) \o SubSeq(T, k, k + 2)
                      \o LevelTokens(f, Drop(a, i + 4))
             /\ CleanBefore(f, m, T, k) /\ one.err = "NoError"
                => /\ one.mem[q] = Append(b.mem[q], a[i + 2])
                   /\ one.flag = 0
                   /\ After(f, m, T, k + 2).mem[q] = one.mem[q]
                   /\ NonFlagValue(f, m, T, k + 2)

NamesNoFlag(f, arg) ==
    /\ Len(arg) > 1 /\ arg[1] = "-"
    /\ arg \notin {<<"-", "-">>, <<"-", "-", "*">>}
    /\ <<"=">> \notin {<<arg[i]>> : i \in DOMAIN arg}
    /\ arg \notin FlagNames(f) /\ <<"-", arg[2]>> \notin FlagNames(f)

\* what C19 says of '--' at the level f on a from m: the argument after the
\* hinted one is a flag again
HintReachesOne(f, m, a) ==
    \A i \in DOMAIN a :
       OwnDashes(f, a, i) /\ i + 2 <= Len(a) /\ NamesNoFlag(f, a[i + 2]) =>
          LET T == LevelTokens(f, a)
              k == TokenIndex(f, a, i)
          IN  /\ T[k] = [Type |-> argumentValue, Value |-> a[i + 1],
                         Attached |-> <<>>, AttachValid |-> FALSE]
              /\ T[k + 1] = [Type |-> argumentFlag, Value |-> a[i + 2],
                             Attached |-> <<>>, AttachValid |-> FALSE]
              /\ After(f, m, T, k).err = "NoError" /\ After(f, m, T, k).flag = 0
                   => After(f, m, T, k + 1).err = "FlagNotFound"

\* a '--*' of a that the scanner of the level f reads as itself
OwnStar(f, a, i) == a[i] = <<"-", "-", "*">> /\ TagsAt(f, a)[i].tag = "marker"

\* what C19 says of '--*' at the level f on a: all the later arguments are
\* values
StarReachesAll(f, a) ==
    \A i \in DOMAIN a :
       OwnStar(f, a, i) =>
          LevelTokens(f, a) = LevelTokens(f, Take(a, i - 1)) \o AsValues(a, i + 1)

\* what C19 says of the Parse that ended with e in m, of the command f it
\* reached with the arguments a: it fails when a dashed word that names no
\* flag comes second after a '--', and after a '--*' it binds the last
\* argument whole
HintOutcome(f, a, e, m) ==
    \A i \in DOMAIN a :
       /\ OwnDashes(f, a, i) /\ i + 2 <= Len(a) /\ NamesNoFlag(f, a[i + 2])
            => e # "NoError"
       /\ OwnStar(f, a, i) /\ e = "NoError"
            => \E q \in OwnSinks(f) :
                  \/ PtrType[q] = "string" /\ m[q] = a[Len(a)]
                  \/ PtrType[q] = "[]string" /\ m[q] # <<>> /\ m[q][Len(m[q])] = a[Len(a)]

GluedForm(f, arg) ==
    /\ Len(arg) > 2 /\ arg[1] = "-" /\ arg[2] # "-"
    /\ <<"=">> \notin {<<arg[i]>> : i \in DOMAIN arg}
    /\ <<"-", arg[2]>> \in FlagNames(f)
    /\ ~Combined(f, arg)

\* the flag and the value a glued argument is said to stand for
Unglued(arg) == << <<"-", arg[2]>>, Drop(arg, 2) >>

\* the tokens of the flag X and of the value rest
UngluedTokens(arg) ==
    << [Type |-> argumentFlag, Value |-> <<"-", arg[2]>>, Attached |-> <<>>, AttachValid |-> FALSE],
       [Type |-> argumentValue, Value |-> Drop(arg, 2), Attached |-> <<>>, AttachValid |-> FALSE] >>

GluedSplits(f, a) ==
    \A i \in DOMAIN a :
       TagsAt(f, a)[i].tag = "plain" /\ GluedForm(f, a[i]) =>
          LevelTokens(f, a) =
            LevelTokens(f, Take(a, i - 1))
              \o (IF a[i][3] \in Letters
                    THEN << [Type |-> argumentFlag, Value |-> a[i],
                             Attached |-> <<>>, AttachValid |-> FALSE] >>
                    ELSE UngluedTokens(a[i]))
              \o LevelTokens(f, Drop(a, i))

\* the arguments a with the i-th written as the arguments w
Rewritten(a, i, w) == Take(a, i - 1) \o w \o Drop(a, i)

\* what the amended C20 says of the Parse of a from m under e that ended
\* with the result r: a glued argument of the root whose rest begins with no
\* letter parses as the flag and the value apart do, for a flag that takes a
\* value as the flag with the value attached does too, and that flag is
\* bound to the rest
GluedOutcome(a, m, e, r) ==
    \A i \in DOMAIN a :
       TagsAt(Root, a)[i].tag = "plain" /\ GluedForm(Root, a[i]) /\ a[i][3] \notin Letters =>
          LET q == sets[Root].flags[FlagByName(Root, <<"-", a[i][2]>>)].Ptr
              apart == Rewritten(a, i, Unglued(a[i]))
              attached == Rewritten(a, i, << <<"-", a[i][2], "=">> \o Drop(a[i], 2) >>)
          IN  /\ LevelResults(Root, m, e, a) = LevelResults(Root, m, e, apart)
              /\ r \in LevelResults(Root, m, e, apart)
              /\ ~IsBoolSink(q) =>
                    /\ LevelResults(Root, m, e, a) = LevelResults(Root, m, e, attached)
                    /\ r.err = "NoError" /\ PtrType[q] = "string" => r.mem[q] = Drop(a[i], 2)
                    /\ r.err = "NoError" /\ PtrType[q] = "[]string" => Drop(a[i], 2) \in Range(r.mem[q])

LevelScan(f, a) ==
    scanLevel(sets[f], <<ProgName>> \o a, 2, "", <<>>,
              [Flags |-> <<>>, FirstSubset |-> <<>>, Raw |-> EmptyMap])

\* the raw arguments the pass r gave the child named c
RawOf(r, c) == IF c \in DOMAIN r.Raw THEN r.Raw[c] ELSE <<>>

\* a[i] is the name of a child of f met while no run is open
OpensRun(f, a, i) ==
    /\ a[i] \in SubsetNames(f)
    /\ TagsAt(f, a)[i] = [tag |-> "child", child |-> a[i]]
    /\ i > 1 => TagsAt(f, a)[i - 1].tag # "child"

\* the first argument after a[i] that is a name of a flag of f, with or
\* without an attached value (Len(a) + 1: none)
RunEnd(f, a, i) ==
    LET ends == {j \in (i + 1)..Len(a) : splitAttached(a[j]).name \in FlagNames(f)}
    IN  IF ends = {} THEN Len(a) + 1 ELSE CHOOSE j \in ends : \A k \in ends : j <= k

\* what C21 says of the pass of the level f over a, for the children that
\* a names in one run only
RunBoundary(f, a) ==
    \A i \in DOMAIN a :
       LET j      == RunEnd(f, a, i)
           all    == LevelScan(f, a)
           before == LevelScan(f, Take(a, i - 1))
           after  == LevelScan(f, Drop(a, j - 1))
       IN  OpensRun(f, a, i) /\ RawOf(before, a[i]) = <<>> /\ RawOf(after, a[i]) = <<>> =>
              /\ all.Flags = before.Flags \o after.Flags
              /\ RawOf(all, a[i]) = SubSeq(a, i, j - 1)
              /\ \A c \in SubsetNames(f) \ {a[i]} :
                    RawOf(all, c) = RawOf(before, c) \o RawOf(after, c)

RECURSIVE SinksUnder(_)
\* the sinks of the command c and of the commands below it, its own
\* self-enable sink among them
SinksUnder(c) ==
    OwnSinks(c) \cup ({sets[c].self.Ptr} \ {""}) \cup UNION {SinksUnder(d) : d \in Children(c)}

\* the resolver of the level f fails on the explicit tokens of a, from m: at
\* a token, or at the end with a flag still open
TokensFail(f, m, a) ==
    LET T  == LevelTokens(f, a)
        st == After(f, m, T, Len(T))
    IN  st.err # "NoError" \/ st.flag # 0

\* the error of the level f on the explicit tokens of a
TokensError(f, m, a) ==
    LET T  == LevelTokens(f, a)
        st == After(f, m, T, Len(T))
    IN  IF st.err # "NoError" THEN st.err ELSE "FlagValueNotProvided"

\* no fallback of the level f ran and nothing below f was touched: the
\* flags of f that no token of a names and the sinks of the commands below
\* f hold what they held in m
AbortedAt(f, m, a, n) ==
    /\ \A g \in DOMAIN sets[f].flags :
          /\ ~IsPositional(f, g)
          /\ \A j \in DOMAIN LevelTokens(f, a) : TokenFlag(f, LevelTokens(f, a)[j]) # g
          => n[sets[f].flags[g].Ptr] = m[sets[f].flags[g].Ptr]
    /\ \A c \in Children(f) : \A q \in SinksUnder(c) : n[q] = m[q]

\* the children of the root the scanner met in a
Met(a) == {c \in Children(Root) : \E nm \in NamesOf(sets[c].self) : nm \in DOMAIN LevelScan(Root, a).Raw}

\* the raw arguments after the name of the child c of the root in a
RawAfter(a, c) ==
    Tail(RawOf(LevelScan(Root, a), CHOOSE nm \in NamesOf(sets[c].self) : nm \in DOMAIN LevelScan(Root, a).Raw))

\* the child c of the root was resolved without error: it is enabled and
\* the sinks below it end as in a resolution of c on its arguments
ResolvedWhole(c, m, e, a, n) ==
    /\ n[sets[c].self.Ptr] = TRUE
    /\ \E r \in LevelResults(c, m, e, RawAfter(a, c)) :
          /\ r.err = "NoError"
          /\ \A q \in SinksUnder(c) \ {sets[c].self.Ptr} : n[q] = r.mem[q]

\* the resolution of the child c of the root failed with e0 in n
FailedAt(c, m, e, a, e0, n) ==
    /\ n[sets[c].self.Ptr] = TRUE
    /\ \E r \in LevelResults(c, m, e, RawAfter(a, c)) :
          /\ r.err = e0 /\ r.err # "NoError"
          /\ \A q \in SinksUnder(c) \ {sets[c].self.Ptr} : n[q] = r.mem[q]

\* C22: an error ends the Parse at once.  When the explicit tokens of a
\* command fail, Parse returns that error, the fallback of the command to
\* the environment and the defaults is not run, no child of it is enabled
\* and none is resolved; when the resolution of a child fails, no further
\* command is resolved: every other child met was resolved before, whole
\* and without error, or was not touched.
C22_ErrorsAbort ==
    Parsed =>
      /\ \A f \in Levels :
            RawAt(f).reached /\ TokensFail(f, pre, RawAt(f).raw) =>
               /\ err # "NoError"
               /\ AbortedAt(f, pre, RawAt(f).raw, mem)
      /\ TokensFail(Root, pre, args) => err = TokensError(Root, pre, args)
      /\ ~TokensFail(Root, pre, args) /\ err # "NoError" =>
            \E c \in Met(args) :
               /\ FailedAt(c, pre, env, args, err, mem)
               /\ \A d \in Met(args) \ {c} :
                     \/ ResolvedWhole(d, pre, env, args, mem)
                     \/ \A q \in SinksUnder(d) : mem[q] = pre[q]

\* -x b was parsed: the root has no flag -x, so its defaults were not
\* applied and the child b was neither enabled nor resolved
C22_Witness ==
    /\ phase = "parsed" /\ err = "FlagNotFound"
    /\ args = << <<"-","x">>, <<"b">> >>
    /\ mem["File"] = <<>> /\ mem["Level"] = 0 /\ ~mem["BuildEnable"] /\ mem["Output"] = <<>>

\* ------------------------------------------------------------------------
\* C23: numeric conversion
\* ------------------------------------------------------------------------

\* the sinks of numbers and the numbers their types hold
IsNumberSink(p) == PtrType[p] \in {"uint8", "[]uint8", "int"}

TypeRange(p) == IF PtrType[p] \in {"uint8", "[]uint8"} THEN 0..255 ELSE -1000..1000

\* the text is a numeral: decimal digits after an optional sign
IsNumeral(text) ==
    LET ds == IF text # <<>> /\ Head(text) \in {"-", "+"} THEN Tail(text) ELSE text
    IN  /\ ds # <<>>
        /\ \A i \in DOMAIN ds : ds[i] \in {"0", "1", "2", "3", "4", "5", "6", "7", "8", "9"}

\* the text is the decimal writing of a number the type of the sink p holds
FitsSink(p, text) == IsNumeral(text) /\ \E n \in TypeRange(p) : text = Sprint("float64", n)

\* the texts the tokens of the root supply to flags with a sink of numbers
\* that are no number of the type of the sink
Misfits(a) ==
    LET T == LevelTokens(Root, a)
    IN  { <<i, t>> \in (DOMAIN T) \X Range(Flatten([i \in DOMAIN T |->
                              IF TokenFlag(Root, T[i]) # 0 THEN SuppliedAt(Root, T, i) ELSE <<>>])) :
             /\ TokenFlag(Root, T[i]) # 0
             /\ IsNumberSink(sets[Root].flags[TokenFlag(Root, T[i])].Ptr)
             /\ SuppliedAt(Root, T, i) = <<t>>
             /\ ~FitsSink(sets[Root].flags[TokenFlag(Root, T[i])].Ptr, t) }

\* C23: a Parse whose arguments supply, to a flag with a numeric sink, a
\* text that is not a number or a number outside the range of the type of
\* the sink, fails.
C23_NumbersFit == Parsed /\ Misfits(args) # {} => err # "NoError"

\* ------------------------------------------------------------------------
\* C24: selectable values
\* ------------------------------------------------------------------------

\* the selectable values of a flag
SelectsOf(flag) == Range(flag.Selects.v)

\* the text denotes one of the selectable values of the flag
Selected(flag, text) ==
    IF IsNumberSink(flag.Ptr) THEN \E n \in SelectsOf(flag) : text = Sprint("float64", n)
    ELSE text \in SelectsOf(flag)

\* the values the sink of a flag holds in m: its elements for a sequence
Held(flag, m) == IF IsSliceSink(flag.Ptr) THEN Range(m[flag.Ptr]) ELSE {m[flag.Ptr]}

\* the tokens of T that supply, to a flag of f with selectable values that
\* no earlier token names, a text that denotes none of them
Unselected(f, T) ==
    { j \in DOMAIN T :
        /\ TokenFlag(f, T[j]) # 0
        /\ sets[f].flags[TokenFlag(f, T[j])].Selects.has
        /\ \A k \in 1..(j - 1) : TokenFlag(f, T[k]) # TokenFlag(f, T[j])
        /\ \E t \in Range(SuppliedAt(f, T, j)) : ~Selected(sets[f].flags[TokenFlag(f, T[j])], t) }

\* the flags of f with selectable values that no token of T names and whose
\* environment variable or default gives a text that denotes none of them
UnselectedFallback(f, T, e) ==
    { g \in DOMAIN sets[f].flags :
        /\ sets[f].flags[g].Selects.has
        /\ ExplicitTexts(f, T, g) = <<>>
        /\ \E t \in Range(ChosenTexts(f, T, e, g)) : ~Selected(sets[f].flags[g], t) }

\* what C24 says of the Parse performed for the command f, reached and
\* resolved on the raw arguments a
SelectsEnforced(f, a) ==
    LET T == LevelTokens(f, a)
    IN  /\ err = "NoError" =>
              \A g \in DOMAIN sets[f].flags :
                 sets[f].flags[g].Selects.has /\ ChosenTexts(f, T, env, g) # <<>> =>
                    /\ \A t \in Range(ChosenTexts(f, T, env, g)) : Selected(sets[f].flags[g], t)
                    /\ Held(sets[f].flags[g], mem) \subseteq SelectsOf(sets[f].flags[g])
        /\ Unselected(f, T) # {} \/ UnselectedFallback(f, T, env) # {} => err # "NoError"

\* C24: the selectable values of a flag are enforced for the command line,
\* the environment variable and the default alike.  After a successful
\* Parse every text applied to a flag with selectable values denotes one of
\* them and its sink holds only selectable values; a text that denotes
\* none of them makes the Parse fail, and with InvalidSelect when it is the
\* first failure: a token of the root met with the resolver in order whose
\* text converts to the type of the sink, or a fallback of the root after
\* tokens that did not fail.
C24_SelectsEnforced ==
    Parsed =>
      /\ \A f \in Levels : RawAt(f).reached => SelectsEnforced(f, RawAt(f).raw)
      /\ LET T == LevelTokens(Root, args)
         IN  /\ \A j \in Unselected(Root, T) :
                    /\ After(Root, pre, T, j - 1).err = "NoError"
                    /\ After(Root, pre, T, j - 1).flag = 0
                    /\ \A t \in Range(SuppliedAt(Root, T, j)) :
                          IsNumberSink(sets[Root].flags[TokenFlag(Root, T[j])].Ptr)
                            => FitsSink(sets[Root].flags[TokenFlag(Root, T[j])].Ptr, t)
                    => err = "InvalidSelect"
             /\ ~TokensFail(Root, pre, args) /\ UnselectedFallback(Root, T, env) # {}
                    => err = "InvalidSelect"

\* no argument was parsed with the variable of -m set to e, none of the
\* selectable values a and u: the Parse failed with InvalidSelect
C24_Witness ==
    /\ Parsed /\ args = <<>> /\ env = [n \in {<<"M">>} |-> <<"e">>]
    /\ err = "InvalidSelect"

\* ------------------------------------------------------------------------
\* C25: default round trip
\* ------------------------------------------------------------------------

\* the tree with the default of the flag g of the command f taken away
WithoutDefault(f, g) == [sets EXCEPT ![f].flags[g].Default = NoDefault]

\* the arguments that supply the default of the flag g of f explicitly: its
\* first name with each text of the default attached, in order
DefaultSupplied(f, g) ==
    LET flag == sets[f].flags[g]
        name == Split(flag.Names, flagNameSeparatorForJoin)[1]
    IN  [i \in DOMAIN DefaultTexts(flag) |-> name \o <<"=">> \o DefaultTexts(flag)[i]]

\* the flags of f with a default that neither the tokens of a nor the
\* environment e supply
Defaulted(f, a, e) ==
    { g \in DOMAIN sets[f].flags :
        /\ sets[f].flags[g].Default.has
        /\ ~IsPositional(f, g)
        /\ ExplicitTexts(f, LevelTokens(f, a), g) = <<>>
        /\ EnvTexts(e, sets[f].flags[g]) = <<>> }

\* the outcomes of resolving the command f of the given tree on a
ResultsIn(tree, f, m, e, a) ==
    Results(resolveSet(tree, m, e, f, scan(tree, f, <<ProgName>> \o a)))

\* what C25 says of the command f resolved on a from m: the sink of every
\* defaulted flag ends as in a successful resolution, without the default,
\* of the arguments that supply the default followed by a
RoundTrip(f, m, e, a, n) ==
    \A g \in Defaulted(f, a, e) :
       \E r \in ResultsIn(WithoutDefault(f, g), f, m, e, DefaultSupplied(f, g) \o a) :
          /\ r.err = "NoError"
          /\ r.mem[sets[f].flags[g].Ptr] = n[sets[f].flags[g].Ptr]

\* C25: after a successful Parse, a flag with a default that neither the
\* command line nor the environment supplied holds what it holds when its
\* command, registered without that default, is given the literal default
\* explicitly, each element in order for a sequence.
C25_DefaultRoundTrip ==
    Parsed /\ err = "NoError" =>
       \A f \in Levels : RawAt(f).reached => RoundTrip(f, pre, env, RawAt(f).raw, mem)

\* -z was parsed: -f, -I and -n hold their defaults d, x y and 2, as
\* after -f=d, -I=x -I=y and -n=2 on the commands without them
C25_Witness ==
    /\ Parsed /\ args = << <<"-","z">> >> /\ err = "NoError" /\ env = NoEnv
    /\ Defaulted(Root, args, env) # {}
    /\ mem["File"] = <<"d">> /\ mem["Include"] = << <<"x">>, <<"y">> >> /\ mem["Level"] = 2

\* ------------------------------------------------------------------------
\* C26: the active command
\* ------------------------------------------------------------------------

RECURSIVE ActiveBelow(_)
\* the command reached from the command f, reached by the Parse performed,
\* by following at each level the first argument that names a child
ActiveBelow(f) ==
    LET tags   == TagsAt(f, RawAt(f).raw)
        marks  == {i \in DOMAIN tags : tags[i].tag = "child"}
        first  == CHOOSE i \in marks : \A j \in marks : i <= j
    IN  IF marks = {} THEN f ELSE ActiveBelow(ChildNamed(f, tags[first].child))

\* the children of the root the arguments name, in the order they meet them
ChildrenMet(a) ==
    LET tags == TagsAt(Root, a)
    IN  {tags[i].child : i \in {j \in DOMAIN tags : tags[j].tag = "child"}}

\* C26: after a successful Parse resolver.LastSet is the command reached
\* from the root by following, level by level, the first child the
\* arguments of the level name; it is the root when they name none, and
\* the children named later have no part in it.
C26_ActiveCommand == Parsed /\ err = "NoError" => last = ActiveBelow(Root)

\* k -z b was parsed without error: both children of the root were met, k
\* first, and k is the active command
C26_Witness ==
    /\ Parsed /\ err = "NoError"
    /\ args = << <<"k">>, <<"-","z">>, <<"b">> >>
    /\ Cardinality(ChildrenMet(args)) = 2
    /\ last = ChildNamed(Root, <<"k">>)

\* ------------------------------------------------------------------------
\* C27: the names of one flag
\* ------------------------------------------------------------------------

\* the argument arg of the root, a name of a flag alone or with an attached
\* value, written with each other name of that flag
Aliases(arg) ==
    LET name == splitAttached(arg).name
        g    == FlagByName(Root, name)
    IN  IF g = 0 THEN {}
        ELSE {n \o Drop(arg, Len(name)) : n \in NamesOf(sets[Root].flags[g]) \ {name}}

\* the outcomes of a Parse of a from the memory and under the environment
\* of the Parse performed
OutcomesOf(a) == Results(ParseOutcomes(sets, pre, env, <<ProgName>> \o a))

\* C27: the names of a flag are interchangeable.  Every name of a flag is
\* indexed to that one flag, and writing an argument of the root that
\* names a flag with another name of the flag leaves the outcomes of the
\* Parse as they are: the error, the sinks and the active command.
C27_NamesInterchangeable ==
    Parsed =>
      /\ \A f \in Levels : \A g \in DOMAIN sets[f].flags :
            \A n \in NamesOf(sets[f].flags[g]) : searchFlag(sets[f], n) = g
      /\ \A i \in DOMAIN args :
            TagsAt(Root, args)[i].tag = "plain" =>
               \A w \in Aliases(args[i]) :
                  /\ [err |-> err, mem |-> mem, last |-> last] \in OutcomesOf([args EXCEPT ![i] = w])
                  /\ OutcomesOf([args EXCEPT ![i] = w]) = OutcomesOf(args)

\* --gz a was parsed: the sink of -z is set and a is a non-flag value, as
\* after -z a
C27_Witness ==
    /\ Parsed /\ err = "NoError"
    /\ args = << <<"-","-","g","z">>, <<"a">> >>
    /\ <<"-","z">> \in Aliases(args[1])
    /\ mem["GZ"] = TRUE /\ mem["Args"] = << <<"a">> >>

\* ------------------------------------------------------------------------
\* C28: UpdateMeta
\* ------------------------------------------------------------------------

RECURSIVE Addressed(_, _, _)
\* the command or flag of the tree that the names ns address from the
\* command f: the command and the flag in it (0: the command itself), or
\* none (the command 0) when a name is not found
Addressed(tree, f, ns) ==
    IF ns = <<>> THEN [set |-> f, flag |-> 0]
    ELSE LET kids  == {c \in Range(tree[f].subsets) :
                          Head(ns) \in Range(Split(tree[c].self.Names, flagNameSeparatorForJoin))}
             flags == {g \in DOMAIN tree[f].flags :
                          Head(ns) \in Range(Split(tree[f].flags[g].Names, flagNameSeparatorForJoin))}
         IN  IF kids # {} THEN Addressed(tree, CHOOSE c \in kids : TRUE, Tail(ns))
             ELSE IF Len(ns) = 1 /\ flags # {} THEN [set |-> f, flag |-> CHOOSE g \in flags : TRUE]
             ELSE [set |-> 0, flag |-> 0]

\* the names of a children identifier; the empty identifier is the command
\* itself
SectionsOf(children) ==
    LET secs == Split(children, <<",">>)
    IN  IF children = <<>> THEN <<>> ELSE [i \in DOMAIN secs |-> TrimSpace(secs[i])]

\* the fields of a flag or command that are no metadata
Kept(flag) ==
    [Names |-> flag.Names, Ptr |-> flag.Ptr, Default |-> flag.Default, Selects |-> flag.Selects,
     Env |-> flag.Env, ValSep |-> flag.ValSep, ArgsPtr |-> flag.ArgsPtr,
     ArgsAnywhere |-> flag.ArgsAnywhere]

\* the tree with the metadata of the addressed flag or command blanked
Blanked(tree, t) ==
    LET blank(flag) == [flag EXCEPT !.Desc = <<>>, !.Arglist = <<>>, !.Usage = <<>>,
                                    !.Version = <<>>]
    IN  IF t.flag = 0 THEN [tree EXCEPT ![t.set].self = blank(@)]
        ELSE [tree EXCEPT ![t.set].flags[t.flag] = blank(@)]

\* C28: UpdateMeta changes only the Desc, Arglist, Usage and Version of the
\* flag or command it addresses: every other field of it and the rest of
\* the tree are as before, and when the identifier addresses nothing the
\* call returns FlagNotFound and the tree is as before.
C28_MetaOnly ==
    op.kind = "UpdateMeta" =>
       LET t == Addressed(old, Root, SectionsOf(op.names[1]))
       IN  IF t.set = 0 THEN err = "FlagNotFound" /\ sets = old
           ELSE Blanked(sets, t) = Blanked(old, t)

\* ------------------------------------------------------------------------
\* C29: determinism
\* ------------------------------------------------------------------------

\* C29: Parse has one outcome.  Every order in which the children met at a
\* level are visited ends with the error of the Parse performed, and, when
\* that is no error, with its sinks and its active command.
C29_Deterministic ==
    Parsed =>
       \A o \in OutcomesOf(args) :
          /\ o.err = err
          /\ err = "NoError" => o.mem = mem /\ o.last = last

\* ------------------------------------------------------------------------
\* C30: the sink after a failed application
\* ------------------------------------------------------------------------

\* the texts of the booleans, in lower case
BoolTexts ==
    { <<"t","r","u","e">>, <<"t">>, <<"y","e","s">>, <<"y">>, <<"1">>,
      <<"f","a","l","s","e">>, <<"f">>, <<"n","o">>, <<"n">>, <<"0">> }

\* why the text t may not be applied to the flag: no boolean, no number, a
\* value that is not selectable; "" when it may
Refused(flag, t) ==
    IF IsBoolSink(flag.Ptr)
      THEN (IF ToLower(t) \in BoolTexts THEN "" ELSE "IllegalBool")
    ELSE IF IsNumberSink(flag.Ptr) /\ ~IsNumeral(t) THEN "IllegalNumber"
    ELSE IF flag.Selects.has /\ ~Selected(flag, t) THEN "InvalidSelect"
    ELSE ""

\* the tokens of the root at which an application fails first: the token
\* supplies a refused text to a flag that may come, a number being one the
\* type of the sink holds, and the tokens before it were resolved without
\* error
FirstRefused(m, T) ==
    { j \in DOMAIN T :
        /\ TokenFlag(Root, T[j]) # 0
        /\ Len(SuppliedAt(Root, T, j)) = 1
        /\ LET flag == sets[Root].flags[TokenFlag(Root, T[j])]
                t    == SuppliedAt(Root, T, j)[1]
           IN  /\ Refused(flag, t) # ""
               /\ Refused(flag, t) = "InvalidSelect" /\ IsNumberSink(flag.Ptr)
                     => FitsSink(flag.Ptr, t)
               /\ IsSliceSink(flag.Ptr)
                     \/ \A k \in 1..(j - 1) : TokenFlag(Root, T[k]) # TokenFlag(Root, T[j])
        /\ After(Root, m, T, j - 1).err = "NoError"
        /\ After(Root, m, T, j - 1).flag = 0 }

\* what the sink p, holding cur, holds after the refused text t: cur for a
\* text that is no boolean, zero in the place of a text that is no number,
\* the value itself when it is not selectable
LeftInSink(flag, cur, t) ==
    LET v == CASE Refused(flag, t) = "IllegalNumber" -> 0
               [] IsNumberSink(flag.Ptr) -> CHOOSE n \in TypeRange(flag.Ptr) : t = Sprint("float64", n)
               [] OTHER -> t
    IN  IF Refused(flag, t) = "IllegalBool" THEN cur
        ELSE IF IsSliceSink(flag.Ptr) THEN Append(cur, v) ELSE v

\* C30 as stated: after the application of a value to a flag failed, the
\* sink of the flag holds what it held before the attempt.
C30_SinkUntouched ==
    Parsed =>
       \A j \in FirstRefused(pre, LevelTokens(Root, args)) :
          LET T    == LevelTokens(Root, args)
              flag == sets[Root].flags[TokenFlag(Root, T[j])]
          IN  mem[flag.Ptr] = After(Root, pre, T, j - 1).mem[flag.Ptr]

\* C30, amended: the application fails with the error of its cause, and
\* the sink holds what it held before only for a text that is no boolean;
\* a text that is no number leaves zero in the sink, appended for a
\* sequence, and a value that is not selectable is left in the sink,
\* appended for a sequence.
C30_SinkAfterFailure ==
    Parsed =>
       \A j \in FirstRefused(pre, LevelTokens(Root, args)) :
          LET T    == LevelTokens(Root, args)
              flag == sets[Root].flags[TokenFlag(Root, T[j])]
              t    == SuppliedAt(Root, T, j)[1]
          IN  /\ err = Refused(flag, t)
              /\ mem[flag.Ptr] = LeftInSink(flag, After(Root, pre, T, j - 1).mem[flag.Ptr], t)

\* -l=1 -l=3 was parsed: 3 is not selectable, the Parse failed and the
\* sink of -l holds 1 and 3
C30_Witness ==
    /\ Parsed /\ args = << <<"-","l","=","1">>, <<"-","l","=","3">> >>
    /\ FirstRefused(pre, LevelTokens(Root, args)) = {2}
    /\ err = "InvalidSelect"
    /\ mem["Lvls"] = <<1, 3>>
====
